---------------------------- MODULE Spec2Model ----------------------------
(***************************************************************************)
(* A model of py-race-results (package rr): the membership matchers, the   *)
(* discovery of race URLs from a date range, the CoolRunning race-file     *)
(* pipeline and the assembly of the output document.                       *)
(*                                                                         *)
(* Text is modelled at character level: a string is a sequence of          *)
(* one-character strings, so that the regular expressions of the source    *)
(* (word boundaries, white space, IGNORECASE) are computed, not assumed.   *)
(***************************************************************************)
EXTENDS Integers, Sequences, FiniteSets, TLC

VARIABLES
    \* --- matcher specification (SpecMatch)
    m_phase,      \* "input" | "matched"
    m_roster,     \* sequence of members [first, last]
    m_line,       \* the line of text handed to match_against_membership
    m_crrr,       \* result of CoolRunning.match_against_membership
    m_brrr,       \* result of brrr.match_against_membership
    m_common,     \* result of RaceResults.match_against_membership
    \* --- the output document (SpecDoc, Spec)
    output_file,  \* content of self.output_file: a sequence of markup tokens
    initialized,  \* initialize_output_file has run in this run
    family,       \* the class whose insert_race_results this run uses
    appended,     \* history: the fragments handed to insert_race_results
                  \* since initialize_output_file, in call order
    \* --- CoolRunning.run over a list of local race files (Spec)
    pc,           \* "start" | "loop" | "done" | "crashed" ("off": no run)
    membership,   \* the membership list
    race_list,    \* the race files named by self.race_list
    race_idx,     \* position of the for loop of compile_local_results
    log,          \* history: what each processed race file led to
    \* --- discovery of race URLs in a master file (SpecDisc)
    disc_phase,   \* "range" | "done" ("off": no discovery)
    start_date,   \* self.start_date, a record [y, m, d]
    stop_date,    \* self.stop_date
    site,         \* the class whose master file was processed
    selected,     \* the dates of the candidates the pattern selected
    \* --- runs over downloaded pages (SpecWeb) and banners (SpecBanner)
    html,         \* self.html: the page last read and decoded
    banners,      \* what each banner extraction returned for a <pre> block
    \* --- downloads of NewYorkRR instances (SpecNyrr)
    cookie_jar,   \* self.cookie_jar of each instance: an index of jars, 0: None
    jars,         \* the LWPCookieJar objects created: the cookies each holds
    opener,       \* the jar of the opener install_opener installed last
    requests      \* history: the requests each instance sent

mvars == <<m_phase, m_roster, m_line, m_crrr, m_brrr, m_common>>

dvars == <<output_file, initialized, family, appended>>

pvars == <<pc, membership, race_list, race_idx, log>>

svars == <<disc_phase, start_date, stop_date, site, selected>>

wvars == <<html, banners>>

nvars == <<cookie_jar, jars, opener, requests>>

vars == <<mvars, dvars, pvars, svars, wvars, nvars>>

NoDate == [y |-> 0, m |-> 0, d |-> 0]

\* The discovery part of a state in which no master file is processed.
SIdle ==
    /\ disc_phase = "off"
    /\ start_date = NoDate
    /\ stop_date = NoDate
    /\ site = "none"
    /\ selected = {}

NoHtml == [t |-> "none"]

\* The part of a state that belongs to no page and no banner extraction.
WIdle ==
    /\ html = NoHtml
    /\ banners = <<>>

\* The download part of a state without a NewYorkRR instance.
NIdle ==
    /\ cookie_jar = <<>>
    /\ jars = <<>>
    /\ opener = 0
    /\ requests = <<>>

-----------------------------------------------------------------------------
(* Characters and strings *)

UpperSeq == <<"A","B","C","D","E","F","G","H","I","J","K","L","M",
              "N","O","P","Q","R","S","T","U","V","W","X","Y","Z">>

LowerSeq == <<"a","b","c","d","e","f","g","h","i","j","k","l","m",
              "n","o","p","q","r","s","t","u","v","w","x","y","z">>

Digits == {"0","1","2","3","4","5","6","7","8","9"}

Letters == {UpperSeq[i] : i \in 1..26} \cup {LowerSeq[i] : i \in 1..26}

\* The characters \s matches: blank, tab, newline.
WhiteSpace == {" ", "\t", "\n"}

\* The characters \w matches.
WordChars == Letters \cup Digits \cup {"_"}

IsWord(c) == c \in WordChars

\* re.IGNORECASE compares characters after case folding.
LowerOfUpper == [c \in {UpperSeq[i] : i \in 1..26} |->
                    LowerSeq[CHOOSE i \in 1..26 : UpperSeq[i] = c]]

Lower(c) == IF c \in DOMAIN LowerOfUpper THEN LowerOfUpper[c] ELSE c

\* The literal w (ignoring case) occupies s[i .. i+Len(w)-1].
MatchAt(s, i, w) ==
    /\ i >= 1
    /\ i + Len(w) - 1 <= Len(s)
    /\ \A k \in 1..Len(w) : Lower(s[i + k - 1]) = Lower(w[k])

IsWordAt(s, i) == i \in 1..Len(s) /\ IsWord(s[i])

\* \b between s[p] and s[p+1] (p = 0 is the start, p = Len(s) the end).
Boundary(s, p) == IsWordAt(s, p) # IsWordAt(s, p + 1)

IsSpaceAt(s, i) == i \in 1..Len(s) /\ s[i] \in WhiteSpace

RECURSIVE Flatten(_)
Flatten(ss) == IF ss = <<>> THEN <<>> ELSE Head(ss) \o Flatten(Tail(ss))

-----------------------------------------------------------------------------
(* Names and lines of text used as inputs *)

Ed      == <<"E","d">>
Ford    == <<"F","o","r","d">>
FORD    == <<"F","O","R","D">>
Bedford == <<"B","e","d","f","o","r","d">>
New     == <<"N","e","w">>
SP      == <<" ">>
COMMA   == <<",">>

\* "New Bedford, NJ"
LineNewBedford == Flatten(<<New, SP, Bedford, COMMA, SP, <<"N","J">> >>)

\* "Ed Ford finished 23rd"
LineEdFordFinished ==
    Flatten(<<Ed, SP, Ford, SP, <<"f","i","n","i","s","h","e","d">>, SP,
              <<"2","3","r","d">> >>)

MemberEdFord == [first |-> Ed, last |-> Ford]
MemberNewEd  == [first |-> New, last |-> Ed]

Members == {MemberEdFord, MemberNewEd}

\* " Ed Ford "
LineSpEdFordSp == Flatten(<<SP, Ed, SP, Ford, SP>>)

\* "ED FORD"
LineUpperEdFord == Flatten(<<<<"E","D">>, SP, FORD>>)

ExampleLines == {LineNewBedford, LineEdFordFinished, LineSpEdFordSp,
                 LineUpperEdFord}

-----------------------------------------------------------------------------
(* The compiled name patterns of the three families of matcher *)

\* The name as a bare substring, without the \b anchors.
SearchBareSubstring(name, line) ==
    \E i \in 1..Len(line) : MatchAt(line, i, name)

\* re.compile('\\b' + name + '\\b', re.IGNORECASE).search(line)
SearchWordBounded(name, line) ==
    \E i \in 1..Len(line) :
        /\ MatchAt(line, i, name)
        /\ Boundary(line, i - 1)
        /\ Boundary(line, i + Len(name) - 1)

\* re.compile('\s+' + name + '\s+', re.IGNORECASE).search(line): a search may
\* start anywhere, so one-or-more white space on a side is one white-space
\* character next to the name on that side.
SearchSpaceDelimited(name, line) ==
    \E i \in 1..Len(line) :
        /\ MatchAt(line, i, name)
        /\ IsSpaceAt(line, i - 1)
        /\ IsSpaceAt(line, i + Len(name))

\* re.compile('\\b(?:f|l)\\s+(?:l|f)\\b', re.IGNORECASE).search(line)
SearchAdjacentPair(fname, lname, line) ==
    \E i \in 1..Len(line) :
        \E a \in {fname, lname} :
            /\ MatchAt(line, i, a)
            /\ Boundary(line, i - 1)
            /\ \E b \in {lname, fname} :
                \E k \in 1..(Len(line) - i - Len(a)) :
                    /\ \A j \in 0..(k - 1) : IsSpaceAt(line, i + Len(a) + j)
                    /\ MatchAt(line, i + Len(a) + k, b)
                    /\ Boundary(line, i + Len(a) + k + Len(b) - 1)

\* CoolRunning.load_membership_list: the pair of patterns of one member.
CrrrMemberMatches(m, line) ==
    SearchWordBounded(m.first, line) /\ SearchWordBounded(m.last, line)

\* brrr.load_membership_list: the pair of patterns of one member.
BrrrMemberMatches(m, line) ==
    SearchSpaceDelimited(m.first, line) /\ SearchSpaceDelimited(m.last, line)

\* RaceResults.load_membership_list: the single fname_lname_regex of a member.
CommonMemberMatches(m, line) == SearchAdjacentPair(m.first, m.last, line)

-----------------------------------------------------------------------------
(* match_against_membership: the loop over the roster, first hit returns *)

RECURSIVE CrrrMatchFrom(_, _, _)
CrrrMatchFrom(idx, roster, line) ==
    IF idx > Len(roster) THEN FALSE
    ELSE IF CrrrMemberMatches(roster[idx], line) THEN TRUE
    ELSE CrrrMatchFrom(idx + 1, roster, line)

\* A loop that returns after its first
\* entry, whether or not that entry matched.
CrrrMatchFirstOnly(roster, line) ==
    Len(roster) >= 1 /\ CrrrMemberMatches(roster[1], line)

CrrrMatchAgainstMembership(roster, line) == CrrrMatchFrom(1, roster, line)

RECURSIVE BrrrMatchFrom(_, _, _)
BrrrMatchFrom(idx, roster, line) ==
    IF idx > Len(roster) THEN FALSE
    ELSE IF BrrrMemberMatches(roster[idx], line) THEN TRUE
    ELSE BrrrMatchFrom(idx + 1, roster, line)

BrrrMatchAgainstMembership(roster, line) == BrrrMatchFrom(1, roster, line)

RECURSIVE CommonMatchFrom(_, _, _)
CommonMatchFrom(idx, roster, line) ==
    IF idx > Len(roster) THEN FALSE
    ELSE IF CommonMemberMatches(roster[idx], line) THEN TRUE
    ELSE CommonMatchFrom(idx + 1, roster, line)

CommonMatchAgainstMembership(roster, line) == CommonMatchFrom(1, roster, line)


-----------------------------------------------------------------------------
(* The output document: a file of markup tokens, parsed and re-serialized *)

XmlDecl    == [t |-> "<?xml?>"]
Open(tag)  == [t |-> "open", tag |-> tag]
Close(tag) == [t |-> "close", tag |-> tag]

\* <link rel="stylesheet" href="rr.css" type="text/css"/>
Link == [t |-> "elem", tag |-> "link", rel |-> "stylesheet",
         href |-> "rr.css", type |-> "text/css"]

\* Position of the first token tok in file, 0 when there is none.
IndexOf(file, tok) ==
    IF \E i \in 1..Len(file) : file[i] = tok
    THEN CHOOSE i \in 1..Len(file) :
            file[i] = tok /\ \A j \in 1..(i - 1) : file[j] # tok
    ELSE 0

\* tostring(root) / ElementTree.write: the root element, no declaration.
\* A writer that leaves the body and the document open.
SerializeUnclosed(tree) ==
    <<Open("html"), Open("head")>> \o tree.head
        \o <<Close("head"), Open("body")>> \o tree.body

Serialize(tree) ==
    <<Open("html"), Open("head")>> \o tree.head
        \o <<Close("head"), Open("body")>> \o tree.body
        \o <<Close("body"), Close("html")>>

\* etree.parse(file, HTMLParser()) / ET.parse(file): the tree of the root
\* element; the XML declaration in front of it is not part of the tree.
ParseFile(file) ==
    LET hb == IndexOf(file, Open("head"))
        he == IndexOf(file, Close("head"))
        bb == IndexOf(file, Open("body"))
        be == IndexOf(file, Close("body"))
    IN  IF /\ IndexOf(file, Open("html")) > 0
           /\ 0 < hb /\ hb < he /\ he < bb /\ bb < be
           /\ be < IndexOf(file, Close("html"))
        THEN [ok |-> TRUE,
              head |-> SubSeq(file, hb + 1, he - 1),
              body |-> SubSeq(file, bb + 1, be - 1)]
        ELSE [ok |-> FALSE, head |-> <<>>, body |-> <<>>]

\* pretty_print_xml: minidom's toprettyxml puts the declaration in front.
PrettyPrintXml(file) ==
    IF ParseFile(file).ok THEN <<XmlDecl>> \o Serialize(ParseFile(file))
    ELSE file

\* An initialization that keeps a file that is already a document.
InitializeKeepingDocument ==
    IF output_file # <<>> THEN output_file
    ELSE <<XmlDecl, Open("html"), Open("head"), Link, Close("head"),
           Open("body"), Close("body"), Close("html")>>

\* RaceResults.initialize_output_file: the skeleton, whatever was there.
InitializeOutputFileContent ==
    PrettyPrintXml(Serialize([head |-> <<Link>>, body |-> <<>>]))

\* RaceResults.local_tidy(local_file): parse as HTML, write the root back.
LocalTidy(file) ==
    IF ParseFile(file).ok THEN Serialize(ParseFile(file)) ELSE file

\* An insert that puts results first: body.insert(0, results).
CommonInsertFirst(file, results) ==
    LET tree == ParseFile(file)
    IN  LocalTidy(Serialize([tree EXCEPT !.body = <<results>> \o tree.body]))

\* An insert that rebuilds the body from results alone.
CommonInsertOnly(file, results) ==
    LET tree == ParseFile(file)
    IN  LocalTidy(Serialize([tree EXCEPT !.body = <<results>>]))

\* RaceResults.insert_race_results: parse, body.append(results), write,
\* local_tidy.  The file is one that parses (it was initialized).
CommonInsertRaceResults(file, results) ==
    LET tree == ParseFile(file)
    IN  LocalTidy(Serialize([tree EXCEPT !.body = Append(tree.body, results)]))

\* NewYorkRR.local_tidy(local_file)
NyrrLocalTidy(file) ==
    IF ParseFile(file).ok THEN Serialize(ParseFile(file)) ELSE file

\* NewYorkRR.insert_race_results
NyrrInsertRaceResults(file, results) ==
    LET tree == ParseFile(file)
    IN  NyrrLocalTidy(
            Serialize([tree EXCEPT !.body = Append(tree.body, results)]))

\* The <div class="race"> that brrr.insert_race_results builds from the
\* matched lines and the race file: h1 from the file's title, the
\* provenance link when a URL was downloaded, the pre with banner and lines.
BrrrDiv(result, race) ==
    [t |-> "elem", tag |-> "div", kind |-> "pre", title |-> race.title,
     date |-> race.date, url |-> race.url, rows |-> result]

\* brrr.insert_race_results: ET.parse, body.append(div), ElementTree.write.
BrrrInsertRaceResults(file, result, race) ==
    LET tree == ParseFile(file)
    IN  Serialize([tree EXCEPT !.body = Append(tree.body, BrrrDiv(result, race))])

HeadOf(file) == ParseFile(file).head
BodyOf(file) == ParseFile(file).body

-----------------------------------------------------------------------------
(* The assembler on its own: initialize, then any appends (SpecDoc) *)

MaxFrags == 3

Titles == {"Alpha 5K", "Zulu 10K"}
Dates  == {"2012-12-02", "2012-12-09"}

\* What a race contributes to a fragment besides its matched rows.
Races == [title : Titles, date : Dates, url : {"none"}]

ResultRows == {<<LineEdFordFinished>>}

\* The fragments an adapter's webify hands to insert_race_results.
Fragments == {BrrrDiv(r, race) : r \in ResultRows, race \in Races}

\* A file left by an earlier run, and no file at all.
PriorFiles == {<<>>,
               Serialize([head |-> <<Link>>,
                          body |-> <<BrrrDiv(<<LineSpEdFordSp>>,
                                     [title |-> "Old race",
                                      date |-> "2011-01-01",
                                      url |-> "none"])>>])}

Families == {"common", "nyrr", "brrr"}

\* The document part of a state in which no run is under way.
DIdle ==
    /\ output_file = <<>>
    /\ initialized = FALSE
    /\ family = "common"
    /\ appended = <<>>

DInit ==
    /\ output_file \in PriorFiles
    /\ initialized = FALSE
    /\ family \in Families
    /\ appended = <<>>

\* initialize_output_file, the first step of every run
InitializeOutputFile ==
    /\ output_file' = InitializeOutputFileContent
    /\ initialized' = TRUE
    /\ appended' = <<>>
    /\ UNCHANGED family

\* RaceResults.insert_race_results(results), also CoolRunning's, CompuScore's
InsertRaceResults ==
    /\ initialized
    /\ family = "common"
    /\ Len(appended) < MaxFrags
    /\ \E f \in Fragments :
        /\ output_file' = CommonInsertRaceResults(output_file, f)
        /\ appended' = Append(appended, f)
    /\ UNCHANGED <<initialized, family>>

\* NewYorkRR.insert_race_results(results)
NyrrInsert ==
    /\ initialized
    /\ family = "nyrr"
    /\ Len(appended) < MaxFrags
    /\ \E f \in Fragments :
        /\ output_file' = NyrrInsertRaceResults(output_file, f)
        /\ appended' = Append(appended, f)
    /\ UNCHANGED <<initialized, family>>

\* brrr.insert_race_results(result, race_file)
BrrrInsert ==
    /\ initialized
    /\ family = "brrr"
    /\ Len(appended) < MaxFrags
    /\ \E r \in ResultRows, race \in Races :
        /\ output_file' = BrrrInsertRaceResults(output_file, r, race)
        /\ appended' = Append(appended, BrrrDiv(r, race))
    /\ UNCHANGED <<initialized, family>>

DNext ==
    \/ InitializeOutputFile /\ UNCHANGED <<nvars, mvars, pvars, svars, wvars>>
    \/ InsertRaceResults /\ UNCHANGED <<nvars, mvars, pvars, svars, wvars>>
    \/ NyrrInsert /\ UNCHANGED <<nvars, mvars, pvars, svars, wvars>>
    \/ BrrrInsert /\ UNCHANGED <<nvars, mvars, pvars, svars, wvars>>

\* The matcher part of a state in which no line is being matched.
MIdle ==
    /\ m_phase = "idle"
    /\ m_roster = <<>>
    /\ m_line = <<>>
    /\ m_crrr = FALSE
    /\ m_brrr = FALSE
    /\ m_common = FALSE

\* The pipeline part of a state in which no CoolRunning run is under way.
PIdle ==
    /\ pc = "off"
    /\ membership = <<>>
    /\ race_list = <<>>
    /\ race_idx = 0
    /\ log = <<>>

DocInit == DInit /\ MIdle /\ PIdle /\ SIdle /\ WIdle /\ NIdle

SpecDoc == DocInit /\ [][DNext]_vars

\* C1: after initialize_output_file and any sequence of insert_race_results
\* calls, the children of the body are exactly the fragments handed over,
\* in call order, whatever their titles and dates.
C1_BodyIsCallOrder ==
    initialized =>
        /\ ParseFile(output_file).ok
        /\ BodyOf(output_file) = appended

\* C1 witness: two fragments appended against the order of their titles and
\* of their dates.
C1_Witness ==
    /\ initialized
    /\ Len(appended) = 2
    /\ appended[1].title = "Zulu 10K" /\ appended[1].date = "2012-12-09"
    /\ appended[2].title = "Alpha 5K" /\ appended[2].date = "2012-12-02"
    /\ BodyOf(output_file) = appended

\* C2: each insert_race_results adds exactly one new last child to the body
\* and leaves the earlier children and the head with its stylesheet link as
\* they were.
C2_AppendFrame ==
    [][(initialized /\ initialized' /\ appended' # appended
            /\ Len(appended') > 0) =>
        /\ Len(BodyOf(output_file')) = Len(BodyOf(output_file)) + 1
        /\ SubSeq(BodyOf(output_file'), 1, Len(BodyOf(output_file)))
                = BodyOf(output_file)
        /\ BodyOf(output_file')[Len(BodyOf(output_file'))]
                = appended'[Len(appended')]
        /\ HeadOf(output_file') = HeadOf(output_file)
        /\ HeadOf(output_file') = <<Link>>]_vars

\* C2 witness: a second fragment appended after a first.
C2_Witness ==
    /\ initialized
    /\ Len(BodyOf(output_file)) = 2
    /\ HeadOf(output_file) = <<Link>>

-----------------------------------------------------------------------------
(* Inputs of the matcher specification *)

MaxRoster == 2
MaxTokens == 3

Tokens == {Ed, Ford, Bedford, SP, COMMA}

SeqsUpTo(S, n) == UNION {[1..k -> S] : k \in 0..n}

Rosters == SeqsUpTo(Members, MaxRoster) \ {<<>>}

Lines == {Flatten(ts) : ts \in SeqsUpTo(Tokens, MaxTokens)}
            \cup ExampleLines

MInit ==
    /\ m_phase = "input"
    /\ m_roster \in Rosters
    /\ m_line \in Lines
    /\ m_crrr = FALSE
    /\ m_brrr = FALSE
    /\ m_common = FALSE
    /\ DIdle
    /\ PIdle
    /\ SIdle
    /\ WIdle
    /\ NIdle

\* One call of match_against_membership(line) in each family.
MatchLine ==
    /\ m_phase = "input"
    /\ m_phase' = "matched"
    /\ m_crrr' = CrrrMatchAgainstMembership(m_roster, m_line)
    /\ m_brrr' = BrrrMatchAgainstMembership(m_roster, m_line)
    /\ m_common' = CommonMatchAgainstMembership(m_roster, m_line)
    /\ UNCHANGED <<m_roster, m_line>>
    /\ UNCHANGED <<dvars, pvars, svars, wvars, nvars>>

MNext == MatchLine

SpecMatch == MInit /\ [][MNext]_vars

-----------------------------------------------------------------------------
(* Claims about the matchers, checked under SpecMatch *)

LowerStr(s) == [i \in 1..Len(s) |-> Lower(s[i])]

\* L contains w, ignoring case, as a substring with no word character
\* directly before it and none directly after it.
ContainsWordBounded(w, L) ==
    \E i \in 1..(Len(L) - Len(w) + 1) :
        LET j == i + Len(w) - 1
        IN  /\ (i = 1 \/ ~IsWord(L[i - 1]))
            /\ (j = Len(L) \/ ~IsWord(L[j + 1]))
            /\ LowerStr(SubSeq(L, i, j)) = LowerStr(w)

ContainsBothNames(m, L) ==
    ContainsWordBounded(m.first, L) /\ ContainsWordBounded(m.last, L)

\* C4: match_against_membership(line) is true iff at least one roster entry,
\* duplicates included, has its compiled patterns matching somewhere in the
\* line: for CoolRunning both the first-name and the last-name pattern, for
\* RaceResults the entry's fname_lname_regex.
C4_MatchIffSomeEntry ==
    m_phase = "matched" =>
        /\ m_crrr = (\E k \in 1..Len(m_roster) :
                        /\ SearchWordBounded(m_roster[k].first, m_line)
                        /\ SearchWordBounded(m_roster[k].last, m_line))
        /\ m_common = (\E k \in 1..Len(m_roster) :
                        SearchAdjacentPair(m_roster[k].first,
                                           m_roster[k].last, m_line))

\* C4 witness: a match decided by the second roster entry alone.
C4_Witness ==
    /\ m_phase = "matched"
    /\ Len(m_roster) = 2
    /\ ~CrrrMemberMatches(m_roster[1], m_line)
    /\ CrrrMemberMatches(m_roster[2], m_line)
    /\ m_crrr

\* C5 as stated: in each of the three families the matcher of a member is
\* true iff the line contains the first and the last name as separately
\* word-bounded substrings, ignoring case.
C5_Original ==
    (m_phase = "matched" /\ Len(m_roster) = 1) =>
        /\ m_crrr = ContainsBothNames(m_roster[1], m_line)
        /\ m_brrr = ContainsBothNames(m_roster[1], m_line)
        /\ m_common = ContainsBothNames(m_roster[1], m_line)

\* C5 amended: the equivalence holds of CoolRunning's matcher; brrr's
\* matcher (white space required on both sides of each name) is true only
\* of such lines; Ed Ford matches "New Bedford, NJ" in no family and
\* matches "Ed Ford finished 23rd" in CoolRunning's and RaceResults'.
C5_WordBoundedCoolRunning ==
    (m_phase = "matched" /\ Len(m_roster) = 1) =>
        /\ m_crrr = ContainsBothNames(m_roster[1], m_line)
        /\ m_brrr => ContainsBothNames(m_roster[1], m_line)
        /\ (m_roster[1] = MemberEdFord /\ m_line = LineNewBedford) =>
                ~m_crrr /\ ~m_brrr /\ ~m_common
        /\ (m_roster[1] = MemberEdFord /\ m_line = LineEdFordFinished) =>
                m_crrr /\ m_common

\* C5 witness: the roster is Ed Ford alone, the line is "New Bedford, NJ"
\* and CoolRunning's matcher has answered no.
C5_Witness ==
    /\ m_phase = "matched"
    /\ m_roster = <<MemberEdFord>>
    /\ m_line = LineNewBedford
    /\ ~m_crrr

-----------------------------------------------------------------------------
(* CoolRunning race files *)

NL == "\n"

\* str.join
RECURSIVE Join(_, _)
Join(lines, sep) ==
    IF lines = <<>> THEN <<>>
    ELSE IF Len(lines) = 1 THEN lines[1]
    ELSE lines[1] \o <<sep>> \o Join(Tail(lines), sep)

\* str.split(sep)
RECURSIVE Split(_, _)
Split(text, sep) ==
    IF \E i \in 1..Len(text) : text[i] = sep
    THEN LET i == CHOOSE i \in 1..Len(text) :
                    text[i] = sep /\ \A j \in 1..(i - 1) : text[j] # sep
         IN  <<SubSeq(text, 1, i - 1)>>
                \o Split(SubSeq(text, i + 1, Len(text)), sep)
    ELSE <<text>>

\* "Place Name"
LineBanner == <<"P","l","a","c","e"," ","N","a","m","e">>
\* "  1 New Bedford"
LineFirstPlace == Flatten(<<SP, SP, <<"1">>, SP, New, SP, Bedford>>)
\* "  2 Ed Ford"
LineMember == Flatten(<<SP, SP, <<"2">>, SP, Ed, SP, Ford>>)

\* What stands between <pre> and </pre> in a race file.
PreWithMember   == Join(<<LineBanner, LineFirstPlace, LineMember>>, NL)
PreNoMember     == Join(<<LineBanner, LineFirstPlace>>, NL)
PreNoFirstPlace == Join(<<LineBanner, LineMember>>, NL)

\* A table row of a Cape Cod Road Runners file: its number of cells and the
\* text of its second cell, the runner's name.
RowHeader == [ntds |-> 3, name |-> <<"N","a","m","e">>]
RowMember == [ntds |-> 3, name |-> Flatten(<<Ed, SP, Ford>>)]
RowOther  == [ntds |-> 3, name |-> Flatten(<<New, SP, Bedford>>)]
RowShort  == [ntds |-> 2, name |-> Flatten(<<Ed, SP, Ford>>)]

\* The markup of a race file apart from its Author meta tag.
MarkupFull ==
    [h1 |-> "Alpha 5K", h2 |-> "Boston, MA 2012-12-02", hasPre |-> TRUE,
     pre |-> PreWithMember, xmlOK |-> TRUE,
     trs |-> <<RowHeader, RowOther, RowShort, RowMember>>]
MarkupNoMember ==
    [MarkupFull EXCEPT !.pre = PreNoMember, !.trs = <<RowHeader, RowOther>>]
MarkupNoH1H2 == [MarkupFull EXCEPT !.h1 = "", !.h2 = ""]
MarkupNoFirstPlace == [MarkupFull EXCEPT !.pre = PreNoFirstPlace]
MarkupNoPre == [MarkupFull EXCEPT !.hasPre = FALSE, !.pre = <<>>]
MarkupSoup == [MarkupFull EXCEPT !.xmlOK = FALSE]

Markups == {MarkupFull, MarkupNoMember, MarkupNoH1H2, MarkupNoFirstPlace,
            MarkupNoPre, MarkupSoup}

\* A race file: whether it can be opened, the content of its Author meta
\* tag ("" when the file has none) and the rest of its markup.
RaceFile(author, markup) ==
    [exists |-> TRUE, author |-> author, markup |-> markup]

MissingFile == [exists |-> FALSE, author |-> "", markup |-> MarkupNoPre]

CcrrAuthors      == {"CapeCodRoadRunners"}
VanillaAuthors   == {"kick610", "JB Race", "gstate", "ab-mac", "FTO", "NSTC",
                     "ndatrackxc", "wcrc", "Spitler"}
ColonialAuthors  == {"colonial", "opportunity"}
HarriersAuthors  == {"Harriers"}
XmlAuthors       == {"FFAST", "lungne", "northeastracers", "sri"}
WcrcScottAuthors == {"WCRCSCOTT"}

KnownAuthors == CcrrAuthors \cup VanillaAuthors \cup ColonialAuthors
                    \cup HarriersAuthors \cup XmlAuthors \cup WcrcScottAuthors

-----------------------------------------------------------------------------
(* CoolRunning: from one race file to a fragment in the output file *)

NoFrag == [t |-> "none"]

\* What a call did: the exception that left it ("" when it returned), the
\* fragment it handed to insert_race_results, the output file afterwards.
Returned(file) == [raised |-> "", inserted |-> FALSE, frag |-> NoFrag,
                   file |-> file]
RaisedLosingFile(exc, file) ==
    [raised |-> exc, inserted |-> FALSE, frag |-> NoFrag, file |-> <<>>]
Raised(exc, file) == [raised |-> exc, inserted |-> FALSE, frag |-> NoFrag,
                      file |-> file]
Inserted(frag, file) ==
    [raised |-> "", inserted |-> TRUE, frag |-> frag,
     file |-> CommonInsertRaceResults(file, frag)]

\* A collection that keeps every line of the <pre> block.
CompileVanillaEveryLine(race, members) ==
    IF ~race.markup.hasPre THEN <<>> ELSE Split(race.markup.pre, NL)

\* CoolRunning.compile_vanilla_results: the lines of the <pre> block that
\* match the membership list; [] when the file has no <pre> block.
CompileVanillaResults(race, members) ==
    IF ~race.markup.hasPre THEN <<>>
    ELSE LET IsMember(line) == CrrrMatchAgainstMembership(members, line)
         IN  SelectSeq(Split(race.markup.pre, NL), IsMember)

\* The rows one pass of the inner loop over the membership adds for tr.
RECURSIVE CcrrRowHits(_, _, _)
CcrrRowHits(tr, members, k) ==
    IF k > Len(members) THEN <<>>
    ELSE (IF CrrrMemberMatches(members[k], tr.name) THEN <<tr>> ELSE <<>>)
            \o CcrrRowHits(tr, members, k + 1)

RECURSIVE CcrrRows(_, _)
CcrrRows(trs, members) ==
    IF trs = <<>> THEN <<>>
    ELSE (IF Head(trs).ntds < 3 THEN <<>>
          ELSE CcrrRowHits(Head(trs), members, 1))
            \o CcrrRows(Tail(trs), members)

\* CoolRunning.compile_ccrr_race_results, for a file ET.parse accepts: the
\* matching rows, the header row in front when there is any.
CompileCcrrRaceResults(race, members) ==
    LET results == CcrrRows(race.markup.trs, members)
    IN  IF Len(results) > 0 THEN <<race.markup.trs[1]>> \o results
        ELSE results

\* The regular expression of webify_vanilla_results: the banner is the
\* shortest text after <pre> that ends in a newline and is followed by
\* white space and a 1 at a word boundary.  {} when it does not match.
BannerEnds(text) ==
    {p \in 1..Len(text) :
        /\ text[p] = NL
        /\ \E q \in (p + 1)..Len(text) :
            /\ \A j \in (p + 1)..(q - 1) : text[j] \in WhiteSpace
            /\ text[q] = "1"
            /\ Boundary(text, q)}

Min(S) == CHOOSE x \in S : \A y \in S : x <= y

\* CoolRunning.construct_common_div and the two webify methods: the
\* <div class="race"> with h1, h2 and the results.
VanillaDiv(result_lst, race) ==
    [t |-> "elem", tag |-> "div", kind |-> "pre",
     title |-> race.markup.h1, date |-> race.markup.h2, url |-> "none",
     text |-> <<NL>>
                \o SubSeq(race.markup.pre, 1, Min(BannerEnds(race.markup.pre)))
                \o Join(result_lst, NL) \o <<NL>>]

CcrrDiv(results, race) ==
    [t |-> "elem", tag |-> "div", kind |-> "table",
     title |-> race.markup.h1, date |-> race.markup.h2, url |-> "none",
     rows |-> results]

\* webify_vanilla_results then insert_race_results
WebifyVanillaAndInsert(result_lst, race, file) ==
    IF race.markup.h1 = "" \/ race.markup.h2 = ""
    THEN Raised("RuntimeError", file)
    ELSE IF BannerEnds(race.markup.pre) = {}
    THEN Raised("AttributeError", file)
    ELSE Inserted(VanillaDiv(result_lst, race), file)

\* webify_ccrr_results then insert_race_results
WebifyCcrrAndInsert(results, race, file) ==
    IF race.markup.h1 = "" \/ race.markup.h2 = ""
    THEN Raised("RuntimeError", file)
    ELSE Inserted(CcrrDiv(results, race), file)

\* A vanilla branch that webifies and inserts whatever was collected.
VanillaBranchAlways(race, members, file) ==
    WebifyVanillaAndInsert(CompileVanillaResults(race, members), race, file)

\* The vanilla branch of compile_race_results.
VanillaBranch(race, members, file) ==
    LET results == CompileVanillaResults(race, members)
    IN  IF Len(results) > 0
        THEN WebifyVanillaAndInsert(results, race, file)
        ELSE Returned(file)

\* The Cape Cod Road Runners branch of compile_race_results.
CcrrBranch(race, members, file) ==
    IF ~race.markup.xmlOK THEN Raised("ParseError", file)
    ELSE LET results == CompileCcrrRaceResults(race, members)
         IN  IF Len(results) > 0
             THEN WebifyCcrrAndInsert(results, race, file)
             ELSE Returned(file)

\* A dispatch without the branch for 'colonial' and 'opportunity'.
CompileRaceResultsNoDenylist(race, members, file) ==
    IF race.author = "" THEN Raised("RuntimeError", file)
    ELSE IF race.author \in CcrrAuthors THEN CcrrBranch(race, members, file)
    ELSE IF race.author \in HarriersAuthors THEN Returned(file)
    ELSE IF race.author \in XmlAuthors THEN Returned(file)
    ELSE IF race.author \in WcrcScottAuthors THEN Returned(file)
    ELSE VanillaBranch(race, members, file)

\* A dispatch that gives up on a vendor in none of its lists.
CompileRaceResultsUnknownFails(race, members, file) ==
    IF race.author = "" THEN Raised("RuntimeError", file)
    ELSE IF race.author \in CcrrAuthors THEN CcrrBranch(race, members, file)
    ELSE IF race.author \in VanillaAuthors
    THEN VanillaBranch(race, members, file)
    ELSE IF race.author \in KnownAuthors THEN Returned(file)
    ELSE Raised("RuntimeError", file)

\* CoolRunning.compile_race_results(race_file)
CompileRaceResults(race, members, file) ==
    IF race.author = "" THEN Raised("RuntimeError", file)
    ELSE IF race.author \in CcrrAuthors THEN CcrrBranch(race, members, file)
    ELSE IF race.author \in VanillaAuthors
    THEN VanillaBranch(race, members, file)
    ELSE IF race.author \in ColonialAuthors THEN Returned(file)
    ELSE IF race.author \in HarriersAuthors THEN Returned(file)
    ELSE IF race.author \in XmlAuthors THEN Returned(file)
    ELSE IF race.author \in WcrcScottAuthors THEN Returned(file)
    ELSE VanillaBranch(race, members, file)

\* One pass of the loop of compile_local_results: local_tidy and
\* compile_race_results inside try, except IOError.
ProcessLocalFile(race, members, file) ==
    IF ~race.exists THEN [Returned(file) EXCEPT !.raised = "IOError caught"]
    ELSE CompileRaceResults(race, members, file)

-----------------------------------------------------------------------------
(* CoolRunning.run over a race list (Spec) *)

MaxRaces == 2

AuthorSamples == {"", "CapeCodRoadRunners", "kick610", "colonial",
                  "opportunity", "Harriers", "FFAST", "WCRCSCOTT", "accu"}

RaceFiles ==
    {RaceFile(a, MarkupFull) : a \in AuthorSamples}
        \cup {RaceFile(a, m) : a \in {"kick610", "accu"}, m \in Markups}
        \cup {RaceFile("CapeCodRoadRunners", m) :
                m \in {MarkupNoMember, MarkupNoH1H2, MarkupSoup}}
        \cup {MissingFile}

PipelineRosters == {<<MemberEdFord>>, <<MemberNewEd, MemberEdFord>>}

Init ==
    /\ pc = "start"
    /\ membership \in PipelineRosters
    /\ race_list \in SeqsUpTo(RaceFiles, MaxRaces)
    /\ race_idx = 0
    /\ log = <<>>
    /\ output_file = <<>>
    /\ initialized = FALSE
    /\ family = "common"
    /\ appended = <<>>
    /\ MIdle
    /\ NIdle
    /\ SIdle
    /\ WIdle

\* run: load_membership_list, then compile_results up to its loop:
\* initialize_output_file.
StartRun ==
    /\ pc = "start"
    /\ pc' = "loop"
    /\ race_idx' = 1
    /\ InitializeOutputFile
    /\ UNCHANGED <<membership, race_list, log>>

\* One pass of the loop of compile_local_results.  An exception other than
\* IOError leaves the loop, compile_results and run.
ProcessRaceFile ==
    /\ pc = "loop"
    /\ race_idx <= Len(race_list)
    /\ LET out == ProcessLocalFile(race_list[race_idx], membership,
                                   output_file)
       IN  /\ output_file' = out.file
           /\ appended' = IF out.inserted THEN Append(appended, out.frag)
                          ELSE appended
           /\ log' = Append(log, [raised |-> out.raised,
                                  inserted |-> out.inserted,
                                  frag |-> out.frag])
           /\ pc' = IF out.raised \in {"", "IOError caught"} THEN "loop"
                    ELSE "crashed"
    /\ race_idx' = race_idx + 1
    /\ UNCHANGED <<membership, race_list, initialized, family>>

\* The end of run: local_tidy(self.output_file).
FinishRun ==
    /\ pc = "loop"
    /\ race_idx > Len(race_list)
    /\ pc' = "done"
    /\ output_file' = LocalTidy(output_file)
    /\ UNCHANGED <<membership, race_list, race_idx, log, initialized, family,
                   appended>>

Next ==
    \/ StartRun /\ UNCHANGED <<nvars, mvars, svars, wvars>>
    \/ ProcessRaceFile /\ UNCHANGED <<nvars, mvars, svars, wvars>>
    \/ FinishRun /\ UNCHANGED <<nvars, mvars, svars, wvars>>

Spec == Init /\ [][Next]_vars

-----------------------------------------------------------------------------
(* Claims about CoolRunning's batch, checked under Spec *)

\* The race the loop of compile_local_results is about to process.
AtRace == pc = "loop" /\ race_idx <= Len(race_list)

CurrentRace == race_list[race_idx]

LastLog(l) == l[Len(l)]

\* No line of the <pre> block names a member of the roster.
NoLineMatches(race, members) ==
    \/ ~race.markup.hasPre
    \/ \A i \in 1..Len(Split(race.markup.pre, NL)) :
        \A k \in 1..Len(members) :
            ~ContainsBothNames(members[k], Split(race.markup.pre, NL)[i])

\* No result row (three cells or more) names a member of the roster.
NoRowMatches(race, members) ==
    \A i \in 1..Len(race.markup.trs) :
        race.markup.trs[i].ntds >= 3 =>
            \A k \in 1..Len(members) :
                ~ContainsBothNames(members[k], race.markup.trs[i].name)

NoMatch(race, members) ==
    IF race.author \in CcrrAuthors THEN NoRowMatches(race, members)
    ELSE NoLineMatches(race, members)

\* C3: processing a race in which no line or row matches the roster calls
\* insert_race_results not at all: the step emits no fragment and leaves the
\* output file as it was, the bare skeleton when no fragment preceded.
C3_NoMatchNoInsert ==
    [][(AtRace /\ NoMatch(CurrentRace, membership)) =>
            /\ output_file' = output_file
            /\ appended' = appended
            /\ ~LastLog(log').inserted
            /\ (appended = <<>> => output_file' = InitializeOutputFileContent)
      ]_vars

\* C3 witness: a vanilla race with a <pre> block that names no member has
\* been processed first and the output file is the bare skeleton.
C3_Witness ==
    /\ pc = "loop"
    /\ Len(log) = 1
    /\ race_list[1] = RaceFile("kick610", MarkupNoMember)
    /\ ~log[1].inserted
    /\ output_file = InitializeOutputFileContent

\* C8: for a race whose Author is 'colonial' or 'opportunity',
\* compile_race_results appends no fragment and raises nothing, whatever
\* the page contains, and the loop goes on to the next race.
C8_DenylistedVendorSkipped ==
    [][(AtRace /\ CurrentRace.exists
            /\ CurrentRace.author \in {"colonial", "opportunity"}) =>
            /\ output_file' = output_file
            /\ appended' = appended
            /\ LastLog(log') = [raised |-> "", inserted |-> FALSE,
                                frag |-> NoFrag]
            /\ pc' = "loop"
            /\ race_idx' = race_idx + 1
      ]_vars

\* C8 witness: a 'colonial' page with a member's line was passed over and
\* the race after it got its fragment.
C8_Witness ==
    /\ Len(log) = 2
    /\ race_list[1] = RaceFile("colonial", MarkupFull)
    /\ ~log[1].inserted
    /\ log[1].raised = ""
    /\ log[2].inserted
    /\ Len(appended) = 1

\* C9: for an Author in none of the lists compile_race_results does what it
\* does for the same page and roster under a vanilla Author: the same
\* fragment appended to the same effect, the same exception if any.
C9_UnknownVendorAsVanilla ==
    [][(AtRace /\ CurrentRace.exists /\ CurrentRace.author # ""
            /\ CurrentRace.author \notin KnownAuthors) =>
            LET known == [CurrentRace EXCEPT !.author = "kick610"]
                ref == CompileRaceResults(known, membership, output_file)
            IN  /\ output_file' = ref.file
                /\ LastLog(log') = [raised |-> ref.raised,
                                    inserted |-> ref.inserted,
                                    frag |-> ref.frag]
                /\ (NoLineMatches(CurrentRace, membership)
                        => LastLog(log').raised = "")
      ]_vars

\* C9 witness: a page of an unknown vendor with a member's line got its
\* fragment.
C9_Witness ==
    /\ Len(log) = 1
    /\ race_list[1] = RaceFile("accu", MarkupFull)
    /\ log[1].inserted
    /\ log[1].frag.kind = "pre"
    /\ BodyOf(output_file) = <<log[1].frag>>

\* A race file whose markup cannot be parsed: no Author meta tag, no H1/H2,
\* no banner before the first place, or markup ET.parse rejects.
Malformed(race) ==
    /\ race.exists
    /\ \/ race.author = ""
       \/ race.markup.h1 = ""
       \/ race.markup.h2 = ""
       \/ race.markup.hasPre /\ BannerEnds(race.markup.pre) = {}
       \/ race.author \in CcrrAuthors /\ ~race.markup.xmlOK

\* A race file that is well formed and has a member's line in a <pre> block
\* of a vanilla vendor.
WellFormedWithMember(race, members) ==
    /\ race.exists
    /\ race.author \in VanillaAuthors
    /\ race.markup \in {MarkupFull, MarkupSoup}
    /\ ~NoLineMatches(race, members)

\* C10: no exception leaves the loop of compile_local_results, and when the
\* run is over every well-formed race with a member's line has its
\* fragment, whatever malformed races the list has besides.
C10_ParseFailureSkipped ==
    /\ pc # "crashed"
    /\ pc = "done" =>
        \A i \in 1..Len(race_list) :
            WellFormedWithMember(race_list[i], membership) =>
                /\ i <= Len(log)
                /\ log[i].inserted

\* C10 witness: the first race file has no Author meta tag, the second is
\* well formed and has a member's line; the RuntimeError of get_author has
\* left the loop before the second was looked at.
C10_Witness ==
    /\ pc = "crashed"
    /\ Len(race_list) = 2
    /\ race_list[1] = RaceFile("", MarkupFull)
    /\ WellFormedWithMember(race_list[2], membership)
    /\ Len(log) = 1
    /\ log[1].raised = "RuntimeError"
    /\ appended = <<>>

-----------------------------------------------------------------------------
(* Dates and their formats *)

Date(y, m, d) == [y |-> y, m |-> m, d |-> d]

IsLeap(y) == (y % 4 = 0 /\ y % 100 # 0) \/ y % 400 = 0

DaysIn(y, m) ==
    IF m = 2 THEN (IF IsLeap(y) THEN 29 ELSE 28)
    ELSE IF m \in {4, 6, 9, 11} THEN 30
    ELSE 31

RECURSIVE DaysBefore(_, _)
DaysBefore(y, m) == IF m = 1 THEN 0 ELSE DaysBefore(y, m - 1) + DaysIn(y, m - 1)

\* The day of the year of a date.
Ordinal(date) == DaysBefore(date.y, date.m) + date.d

DatesOf(y) ==
    {date \in [y : {y}, m : 1..12, d : 1..31] :
        date.d <= DaysIn(date.y, date.m)}

\* date + datetime.timedelta(days=n), within the year.
AddDays(date, n) ==
    CHOOSE other \in DatesOf(date.y) : Ordinal(other) = Ordinal(date) + n

DigitSeq == <<"0", "1", "2", "3", "4", "5", "6", "7", "8", "9">>

DigitChar(n) == DigitSeq[n + 1]

\* "%d" % n
RECURSIVE Decimal(_)
Decimal(n) ==
    IF n < 10 THEN <<DigitChar(n)>>
    ELSE Decimal(n \div 10) \o <<DigitChar(n % 10)>>

\* "%02d" % n
TwoDigits(n) == IF n < 10 THEN <<"0">> \o Decimal(n) ELSE Decimal(n)

\* strftime('%b')
MonthAbbr ==
    <<<<"J", "a", "n">>,
      <<"F", "e", "b">>,
      <<"M", "a", "r">>,
      <<"A", "p", "r">>,
      <<"M", "a", "y">>,
      <<"J", "u", "n">>,
      <<"J", "u", "l">>,
      <<"A", "u", "g">>,
      <<"S", "e", "p">>,
      <<"O", "c", "t">>,
      <<"N", "o", "v">>,
      <<"D", "e", "c">>>>

\* strftime('%y'), strftime('%m'), strftime('%Y')
StrfYY(date) == TwoDigits(date.y % 100)
StrfMM(date) == TwoDigits(date.m)
StrfYYYY(date) == Decimal(date.y)

-----------------------------------------------------------------------------
(* Discovery: the pattern each class builds from the date range *)

\* range(a, b) of Python as a sequence.
Range(a, b) == [i \in 1..(IF b > a THEN b - a ELSE 0) |-> a + i - 1]

\* pat stands in text at position i; a "." of pat stands for any character.
PatternAt(text, i, pat) ==
    /\ i >= 1
    /\ i + Len(pat) - 1 <= Len(text)
    /\ \A k \in 1..Len(pat) : pat[k] = "." \/ text[i + k - 1] = pat[k]

\* A pattern  head(alt1|alt2|...)tail.*last  stands in text at position i.
\* tail and last hold no "."; last = <<>> when the pattern ends with tail.
DatePatternAt(text, i, pattern) ==
    /\ PatternAt(text, i, pattern.head)
    /\ \E k \in 1..Len(pattern.alts) :
        LET lit == pattern.alts[k] \o pattern.tail
            after == i + Len(pattern.head) + Len(lit)
        IN  /\ PatternAt(text, i + Len(pattern.head), lit)
            /\ \E j \in after..(Len(text) + 1) :
                PatternAt(text, j, pattern.last)

\* re.match
ReMatch(pattern, text) == DatePatternAt(text, 1, pattern)

\* re.search, and regex.findall(markup) != [] for one line of markup
ReSearch(pattern, text) ==
    \E i \in 1..Len(text) : DatePatternAt(text, i, pattern)

StrResults ==
    <<"/", "r", "e", "s", "u", "l", "t", "s", "/">>

StrShtml ==
    <<"s", "h", "t", "m", "l">>

StrRaceShtml ==
    <<"_", "R", "a", "c", "e", ".", "s", "h", "t", "m", "l">>

StrBestrace ==
    <<"h", "t", "t", "p", ":", "/", "/", "w", "w", "w", ".", "b", "e", "s",
      "t", "r", "a", "c", "e", ".", "c", "o", "m", "/", "r", "e", "s", "u",
      "l", "t", "s", "/">>

StrBestraceUrl ==
    <<"h", "t", "t", "p", ":", "/", "/", "w", "w", "w", ".", "b", "e", "s",
      "t", "r", "a", "c", "e", ".", "c", "o", "m", "/", "r", "e", "s", "u",
      "l", "t", "s", "/">>

StrHTM ==
    <<"H", "T", "M">>

StrRaceHTM ==
    <<"R", "A", "C", "E", ".", "H", "T", "M">>

\* CoolRunning.construct_state_match_pattern(state)
ConstructStateMatchPattern(start, stop, state) ==
    [head |-> StrResults \o StrfYY(start) \o <<"/">> \o state \o <<"/">>
                \o MonthAbbr[start.m],
     alts |-> [k \in 1..Len(Range(start.d, stop.d)) |->
                    Decimal(Range(start.d, stop.d)[k]) \o <<"_">>]
                \o <<Decimal(stop.d) \o <<"_">>>>,
     tail |-> <<>>,
     last |-> StrShtml]

\* The pattern of brrr.process_master_file.
BrrrPattern(start, stop) ==
    [head |-> StrBestrace \o StrfYY(start) \o <<"/">> \o StrfYY(start)
                \o StrfMM(start),
     alts |-> [k \in 1..Len(Range(start.d, stop.d)) |->
                    TwoDigits(Range(start.d, stop.d)[k])]
                \o <<TwoDigits(stop.d)>>,
     tail |-> <<>>,
     last |-> StrHTM]

\* The pattern of GenericRR.process_master_file.
GenrrPattern(start, stop) ==
    [head |-> StrBestrace \o StrfYY(start) \o <<"/">> \o StrfYY(start)
                \o StrfMM(start),
     alts |-> [k \in 1..Len(Range(start.d, stop.d)) |->
                    TwoDigits(Range(start.d, stop.d)[k])]
                \o <<TwoDigits(stop.d)>>,
     tail |-> <<>>,
     last |-> StrHTM]

\* The date pattern of Active.process_state_master_file.
ActiveDatePattern(start, stop) ==
    [head |-> (IF start.m < 10 THEN <<StrfMM(start)[2]>> ELSE StrfMM(start))
                \o <<"/">>,
     alts |-> <<Decimal(start.d)>>
                \o [k \in 1..Len(Range(start.d + 1, stop.d + 1)) |->
                        Decimal(Range(start.d + 1, stop.d + 1)[k])],
     tail |-> <<"/">> \o StrfYYYY(start),
     last |-> <<>>]

-----------------------------------------------------------------------------
(* Discovery: the candidates of a master file *)

\* The link of CoolRunning's state page to a race of that date, as in
\* /results/07/ma/Jan16_Coloni_set1.shtml
CrrrHref(date, state) ==
    StrResults \o StrfYY(date) \o <<"/">> \o state \o <<"/">>
        \o MonthAbbr[date.m] \o Decimal(date.d) \o StrRaceShtml

\* The link of bestrace.com's index to a race of that date.
BestraceHref(date) ==
    StrBestraceUrl \o StrfYY(date) \o <<"/">> \o StrfYY(date)
        \o StrfMM(date) \o TwoDigits(date.d) \o StrRaceHTM

\* The date cell of a row of Active's page: [M]M/D/YYYY
ActiveDateCell(date) ==
    Decimal(date.m) \o <<"/">> \o Decimal(date.d) \o <<"/">>
        \o StrfYYYY(date)

StateMa == <<"m", "a">>

\* What process_state_master_file / process_master_file select from the
\* candidates of the master file.
CrrrSelect(start, stop, candidates) ==
    {c \in candidates :
        ReSearch(ConstructStateMatchPattern(start, stop, StateMa),
                 CrrrHref(c, StateMa))}

BrrrSelect(start, stop, candidates) ==
    {c \in candidates : ReMatch(BrrrPattern(start, stop), BestraceHref(c))}

GenrrSelect(start, stop, candidates) ==
    {c \in candidates : ReMatch(GenrrPattern(start, stop), BestraceHref(c))}

ActiveSelect(start, stop, candidates) ==
    {c \in candidates :
        ReSearch(ActiveDatePattern(start, stop), ActiveDateCell(c))}

-----------------------------------------------------------------------------
(* Discovery over a date range (SpecDisc) *)

\* The longest range, in days: the default range of RaceResults is the
\* seven days up to now.
MaxSpan == 7

Years == {2012}

StartDates ==
    UNION {{Date(y, 1, d) : d \in 2..5}
            \cup {Date(y, 11, d) : d \in 26..30}
            \cup {Date(y, 12, d) : d \in 1..3} : y \in Years}

\* The races a master file lists: it covers the year.
CandidateDates ==
    UNION {{Date(y, 1, d) : d \in 1..14}
            \cup {Date(y, 11, d) : d \in 1..30}
            \cup {Date(y, 12, d) : d \in 1..13} : y \in Years}

SInit ==
    /\ disc_phase = "range"
    /\ start_date \in StartDates
    /\ \E n \in 0..MaxSpan : stop_date = AddDays(start_date, n)
    /\ site = "none"
    /\ selected = {}
    /\ MIdle
    /\ NIdle
    /\ DIdle
    /\ PIdle
    /\ WIdle

CrrrProcessStateMasterFile ==
    /\ disc_phase = "range"
    /\ disc_phase' = "done"
    /\ site' = "crrr"
    /\ selected' = CrrrSelect(start_date, stop_date, CandidateDates)
    /\ UNCHANGED <<start_date, stop_date>>

BrrrProcessMasterFile ==
    /\ disc_phase = "range"
    /\ disc_phase' = "done"
    /\ site' = "brrr"
    /\ selected' = BrrrSelect(start_date, stop_date, CandidateDates)
    /\ UNCHANGED <<start_date, stop_date>>

GenrrProcessMasterFile ==
    /\ disc_phase = "range"
    /\ disc_phase' = "done"
    /\ site' = "genrr"
    /\ selected' = GenrrSelect(start_date, stop_date, CandidateDates)
    /\ UNCHANGED <<start_date, stop_date>>

ActiveProcessStateMasterFile ==
    /\ disc_phase = "range"
    /\ disc_phase' = "done"
    /\ site' = "active"
    /\ selected' = ActiveSelect(start_date, stop_date, CandidateDates)
    /\ UNCHANGED <<start_date, stop_date>>

SNext ==
    \/ CrrrProcessStateMasterFile /\ UNCHANGED <<nvars, mvars, dvars, pvars, wvars>>
    \/ BrrrProcessMasterFile /\ UNCHANGED <<nvars, mvars, dvars, pvars, wvars>>
    \/ GenrrProcessMasterFile /\ UNCHANGED <<nvars, mvars, dvars, pvars, wvars>>
    \/ ActiveProcessStateMasterFile /\ UNCHANGED <<nvars, mvars, dvars, pvars, wvars>>

SpecDisc == SInit /\ [][SNext]_vars

-----------------------------------------------------------------------------
(* Claims about discovery, checked under SpecDisc *)

InRange(date) ==
    /\ Ordinal(start_date) <= Ordinal(date)
    /\ Ordinal(date) <= Ordinal(stop_date)

\* C6: the candidates dated start_date and stop_date are selected; the
\* candidate dated the day before start_date and the one dated the day
\* after stop_date are not.
C6_BoundaryDaysSelected ==
    disc_phase = "done" =>
        /\ start_date \in selected
        /\ stop_date \in selected
        /\ AddDays(start_date, -1) \notin selected
        /\ AddDays(stop_date, 1) \notin selected

\* C6 witness: CoolRunning's pattern for 2012-11-28 .. 2012-12-02 has been
\* applied and selected neither boundary date.
C6_Witness ==
    /\ disc_phase = "done"
    /\ site = "crrr"
    /\ start_date = Date(2012, 11, 28)
    /\ stop_date = Date(2012, 12, 2)
    /\ start_date \notin selected
    /\ stop_date \notin selected

\* C7: whatever the range, a range that crosses a month boundary included,
\* no candidate dated outside [start_date, stop_date] is selected.
C7_NoneOutsideRange ==
    disc_phase = "done" => \A c \in selected : InRange(c)

\* C7 witness: for 2012-11-28 .. 2012-12-02 brrr's pattern has selected
\* the race of 2012-11-02.
C7_Witness ==
    /\ disc_phase = "done"
    /\ site = "brrr"
    /\ start_date = Date(2012, 11, 28)
    /\ stop_date = Date(2012, 12, 2)
    /\ Date(2012, 11, 2) \in selected

-----------------------------------------------------------------------------
(* CompuScore and L&M Sports: pages fetched from the web *)

\* datetime.date comparison
DateLE(a, b) ==
    \/ a.y < b.y
    \/ a.y = b.y /\ (a.m < b.m \/ (a.m = b.m /\ a.d <= b.d))

StrRace == <<"R", "a", "c", "e">>
StrDateColon == <<"D", "a", "t", "e", ":">>

IsDigitAt(s, i) == i \in 1..Len(s) /\ s[i] \in Digits

DigitValue(c) == (CHOOSE k \in 1..10 : DigitSeq[k] = c) - 1

\* int() of the digits s[i..j]
RECURSIVE IntOf(_, _, _)
IntOf(s, i, j) ==
    IF j < i THEN 0 ELSE 10 * IntOf(s, i, j - 1) + DigitValue(s[j])

\* Race\sDate:(\d{n})-(\d{2})-(\d{2}) stands in s at position i.
RaceDateAt(s, i, n) ==
    /\ PatternAt(s, i, StrRace)
    /\ IsSpaceAt(s, i + 4)
    /\ PatternAt(s, i + 5, StrDateColon)
    /\ \A k \in 0..(n - 1) : IsDigitAt(s, i + 10 + k)
    /\ PatternAt(s, i + 10 + n, <<"-">>)
    /\ IsDigitAt(s, i + 11 + n) /\ IsDigitAt(s, i + 12 + n)
    /\ PatternAt(s, i + 13 + n, <<"-">>)
    /\ IsDigitAt(s, i + 14 + n) /\ IsDigitAt(s, i + 15 + n)

\* The groups mo, dd, yy of the leftmost match of
\* \s*Race\sDate:(?P<mo>\d{1,2})-(?P<dd>\d{2})-(?P<yy>\d{2})\s* in s; the
\* literal regex of get_race_date takes two digits only (shortest = 2).
SearchRaceDate(s, shortest) ==
    LET hits == {i \in 1..Len(s) :
                    \E n \in shortest..2 : RaceDateAt(s, i, n)}
    IN  IF hits = {} THEN [found |-> FALSE, mo |-> 0, dd |-> 0, yy |-> 0]
        ELSE LET i == Min(hits)
                 n == IF RaceDateAt(s, i, 2) THEN 2 ELSE 1
             IN  [found |-> TRUE,
                  mo |-> IntOf(s, i + 10, i + 9 + n),
                  dd |-> IntOf(s, i + 11 + n, i + 12 + n),
                  yy |-> IntOf(s, i + 14 + n, i + 15 + n)]

\* CompuScore.get_race_date on self.html = h: the exception it raises ("" if
\* none) and the date it returns.
GetRaceDate(h) ==
    LET g == IF h.hasH3 THEN SearchRaceDate(h.h3, 1)
             ELSE SearchRaceDate(h.text, 2)
    IN  IF ~g.found THEN [raised |-> "AttributeError", date |-> NoDate]
        ELSE IF g.mo \notin 1..12 \/ g.dd < 1
                    \/ g.dd > DaysIn(2000 + g.yy, g.mo)
        THEN [raised |-> "ValueError", date |-> NoDate]
        ELSE [raised |-> "", date |-> Date(2000 + g.yy, g.mo, g.dd)]

\* re.compile('\\.' + first_name + '\\b', re.IGNORECASE).search(line)
SearchDotPrefixed(name, line) ==
    \E i \in 2..Len(line) :
        /\ line[i - 1] = "."
        /\ MatchAt(line, i, name)
        /\ Boundary(line, i + Len(name) - 1)

\* CompuScore.match_against_membership(line)
CsrrMatchAgainstMembership(roster, line) ==
    \E k \in 1..Len(roster) :
        /\ SearchDotPrefixed(roster[k].first, line)
        /\ SearchWordBounded(roster[k].last, line)

\* The lines of self.html that match_against_membership accepts, for the
\* class named site.
WebResults(who, h, members) ==
    LET Hit(line) == IF who = "csrr"
                     THEN CsrrMatchAgainstMembership(members, line)
                     ELSE CommonMatchAgainstMembership(members, line)
    IN  SelectSeq(Split(h.text, NL), Hit)

\* CompuScore.webify_results: h2, h3 with the date, the provenance link, and
\* a <pre> that holds the matched <strong> markup of the page when the page
\* has it.
CsDiv(results, h, url) ==
    [t |-> "elem", tag |-> "div",
     kind |-> IF h.strong = <<>> THEN "pre" ELSE "mixed",
     title |-> h.title, date |-> GetRaceDate(h).date, url |-> url,
     banner |-> h.strong, rows |-> results]

\* LMSports.webify_results
LmDiv(results, h, url) ==
    [t |-> "elem", tag |-> "div", kind |-> "pre",
     title |-> h.title, date |-> NoDate, url |-> url,
     banner |-> <<"age", "=====">>, rows |-> results]

\* CompuScore.compile_race_results on self.html = h
CsCompileRaceResults(h, url, members, file) ==
    LET results == WebResults("csrr", h, members)
    IN  IF Len(results) > 0
        THEN Inserted(CsDiv(results, h, url), file)
        ELSE Returned(file)

\* LMSports.compile_race_results on self.html = h
LmCompileRaceResults(h, url, members, file) ==
    LET results == WebResults("lmsports", h, members)
    IN  IF Len(results) = 0 THEN Returned(file)
        ELSE IF h.title = "" \/ ~h.ageBanner
        THEN Raised("RuntimeError", file)
        ELSE Inserted(LmDiv(results, h, url), file)

\* The html that one pass of the loop of CompuScore.process_master_file
\* leaves in self.html: the page, or what was there when the page does not
\* decode.
CsHtmlAfterRead(page, before) ==
    IF page.decodable THEN page.content ELSE before

\* A pass that compiles the page whatever its date.
CsProcessUrlAnyDate(page, url, before, start, stop, members, file) ==
    IF ~page.fetch THEN Raised("URLError", file)
    ELSE LET h == CsHtmlAfterRead(page, before)
         IN  IF GetRaceDate(h).raised # ""
             THEN Raised(GetRaceDate(h).raised, file)
             ELSE CsCompileRaceResults(h, url, members, file)

\* One pass of the loop of CompuScore.process_master_file for url.
CsProcessUrl(page, url, before, start, stop, members, file) ==
    IF ~page.fetch THEN Raised("URLError", file)
    ELSE LET h == CsHtmlAfterRead(page, before)
             race_date == GetRaceDate(h)
         IN  IF race_date.raised # "" THEN Raised(race_date.raised, file)
             ELSE IF DateLE(start, race_date.date)
                        /\ DateLE(race_date.date, stop)
             THEN CsCompileRaceResults(h, url, members, file)
             ELSE Returned(file)

\* One pass of the loop of LMSports.process_master_file for an entry of the
\* master file.
LmProcessEntry(page, url, start, stop, members, file) ==
    IF ~(DateLE(start, page.listed) /\ DateLE(page.listed, stop))
    THEN Returned(file)
    ELSE IF ~page.fetch THEN Raised("URLError", file)
    ELSE IF ~page.decodable THEN Raised("UnicodeDecodeError", file)
    ELSE LmCompileRaceResults(page.content, url, members, file)

-----------------------------------------------------------------------------
(* A web run of CompuScore or LMSports over the pages of a master file
   (SpecWeb) *)

\* "2.Ed Ford" and "1.New Bedford"
CsLineMember == Flatten(<<<<"2", ".">>, Ed, SP, Ford>>)
CsLineOther  == Flatten(<<<<"1", ".">>, New, SP, Bedford>>)

\* The text of the sole H3 of a CompuScore page: "  Race Date:11-03-12  "
H3Text(date) ==
    Flatten(<<SP, SP, StrRace, SP, StrDateColon, TwoDigits(date.m), <<"-">>,
              TwoDigits(date.d), <<"-">>, TwoDigits(date.y % 100), SP, SP>>)

\* "Race Date: Jan 2"
H3Garbled == Flatten(<<StrRace, SP, StrDateColon, SP, <<"J", "a", "n", " ", "2">>>>)

\* The <strong> banner of a CompuScore page, as markup.
StrongBanner ==
    <<Open("strong"), "Place Name", Close("strong"),
      Open("strong"), Open("u"), "===== ====", Close("u"), Close("strong")>>

\* A page with an H3 that holds the race date.
DatedPage(date, lines) ==
    [t |-> "page", title |-> "Hangover 5K", hasH3 |-> TRUE,
     h3 |-> H3Text(date), text |-> Join(lines, NL), strong |-> <<>>,
     ageBanner |-> TRUE]

InDate  == Date(2013, 1, 2)
OutDate == Date(2013, 1, 1)

PageIn         == DatedPage(InDate, <<CsLineOther, CsLineMember>>)
PageOut        == DatedPage(OutDate, <<CsLineOther, CsLineMember>>)
PageInNoMember == DatedPage(InDate, <<CsLineOther>>)
PageStrong     == [PageIn EXCEPT !.strong = StrongBanner]
PageGarbled    == [PageIn EXCEPT !.h3 = H3Garbled]
PageNoMarker   == [PageIn EXCEPT !.hasH3 = FALSE, !.h3 = <<>>]
PageLiteral ==
    [PageNoMarker EXCEPT
        !.text = Join(<<H3Text(InDate), CsLineOther, CsLineMember>>, NL)]
PageNoTitle    == [PageIn EXCEPT !.title = "", !.ageBanner = FALSE]

\* self.html after download_master_file: the index of the month.
MasterHtml ==
    [t |-> "page", title |-> "index", hasH3 |-> FALSE, h3 |-> <<>>,
     text |-> <<>>, strong |-> <<>>, ageBanner |-> FALSE]

\* A URL of the master file: whether urlopen succeeds, whether the
\* response decodes as utf-8, the page, and the date the master file of
\* L&M Sports lists for it.
WebPage(content, listed, fetch, decodable) ==
    [content |-> content, listed |-> listed, fetch |-> fetch,
     decodable |-> decodable]

WebPages ==
    {WebPage(c, InDate, TRUE, TRUE) :
        c \in {PageIn, PageInNoMember, PageStrong, PageGarbled,
               PageNoMarker, PageLiteral, PageNoTitle}}
        \cup {WebPage(PageOut, OutDate, TRUE, TRUE),
              WebPage(PageIn, InDate, FALSE, TRUE),
              WebPage(PageOut, InDate, TRUE, FALSE)}

MaxPages == 2

WebRanges == {<<InDate, InDate>>, <<OutDate, InDate>>}

WebInit ==
    /\ pc = "start"
    /\ membership = <<MemberEdFord>>
    /\ race_list \in SeqsUpTo(WebPages, MaxPages)
    /\ race_idx = 0
    /\ log = <<>>
    /\ site \in {"csrr", "lmsports"}
    /\ \E r \in WebRanges : start_date = r[1] /\ stop_date = r[2]
    /\ disc_phase = "off"
    /\ selected = {}
    /\ html = NoHtml
    /\ banners = <<>>
    /\ DIdle
    /\ MIdle
    /\ NIdle

\* compile_results up to the loop of process_master_file:
\* initialize_output_file, download_master_file.
WebStart ==
    /\ pc = "start"
    /\ pc' = "loop"
    /\ race_idx' = 1
    /\ html' = MasterHtml
    /\ InitializeOutputFile
    /\ UNCHANGED <<membership, race_list, log, banners>>

\* What a pass of either loop does to the run.
WebPass(out) ==
    /\ output_file' = out.file
    /\ appended' = IF out.inserted THEN Append(appended, out.frag)
                   ELSE appended
    /\ log' = Append(log, [raised |-> out.raised, inserted |-> out.inserted,
                           frag |-> out.frag])
    /\ pc' = IF out.raised = "" THEN "loop" ELSE "crashed"
    /\ race_idx' = race_idx + 1
    /\ UNCHANGED <<membership, race_list, initialized, family, banners>>

\* One pass of the loop of CompuScore.process_master_file.
CsPass ==
    /\ pc = "loop"
    /\ site = "csrr"
    /\ race_idx <= Len(race_list)
    /\ html' = IF race_list[race_idx].fetch
               THEN CsHtmlAfterRead(race_list[race_idx], html)
               ELSE html
    /\ WebPass(CsProcessUrl(race_list[race_idx], race_idx, html, start_date,
                            stop_date, membership, output_file))

\* One pass of the loop of LMSports.process_master_file.
LmPass ==
    /\ pc = "loop"
    /\ site = "lmsports"
    /\ race_idx <= Len(race_list)
    /\ LET page == race_list[race_idx]
       IN  html' = IF /\ DateLE(start_date, page.listed)
                      /\ DateLE(page.listed, stop_date)
                      /\ page.fetch /\ page.decodable
                   THEN page.content ELSE html
    /\ WebPass(LmProcessEntry(race_list[race_idx], race_idx, start_date,
                              stop_date, membership, output_file))

\* The end of run: local_tidy(self.output_file).
WebFinish ==
    /\ pc = "loop"
    /\ race_idx > Len(race_list)
    /\ pc' = "done"
    /\ output_file' = LocalTidy(output_file)
    /\ UNCHANGED <<membership, race_list, race_idx, log, initialized, family,
                   appended, html, banners>>

WebNext ==
    \/ WebStart /\ UNCHANGED <<nvars, mvars, svars>>
    \/ CsPass /\ UNCHANGED <<nvars, mvars, svars>>
    \/ LmPass /\ UNCHANGED <<nvars, mvars, svars>>
    \/ WebFinish /\ UNCHANGED <<nvars, mvars, svars>>

SpecWeb == WebInit /\ [][WebNext]_vars

-----------------------------------------------------------------------------
(* Claims about web runs, checked under SpecWeb *)

\* C11: a pass whose urlopen fails raises nothing out of the loop: the run
\* goes on with the next URL, and the body of the output file still holds
\* the fragments appended before.
C11_FetchFailureSkipsOne ==
    (log # <<>> /\ LastLog(log).raised = "URLError") =>
        /\ pc = "loop"
        /\ BodyOf(output_file) = appended

\* C11 witness: the first URL of a CompuScore master file cannot be
\* fetched; the run has ended there and the second URL, a page in range
\* with a member's line, was never looked at.
C11_Witness ==
    /\ site = "csrr"
    /\ pc = "crashed"
    /\ Len(race_list) = 2
    /\ ~race_list[1].fetch
    /\ race_list[2] = WebPage(PageIn, InDate, TRUE, TRUE)
    /\ Len(log) = 1
    /\ log[1].raised = "URLError"
    /\ appended = <<>>

\* A CompuScore page without a readable 'Race Date:MM-DD-YY' marker.
MarkerUnreadable(h) == h \in {PageNoMarker, PageGarbled}

\* C14: for a CompuScore page without a readable race date the pass raises
\* nothing and compiles the page: its member lines are appended.
C14_UnreadableDateInRange ==
    site = "csrr" =>
        \A i \in 1..Len(log) :
            (/\ race_list[i].fetch
             /\ race_list[i].decodable
             /\ MarkerUnreadable(race_list[i].content)) =>
                log[i].raised = "" /\ log[i].inserted

\* C14 witness: the page has neither an H3 nor the literal marker, and
\* get_race_date has raised AttributeError out of the loop.
C14_Witness ==
    /\ site = "csrr"
    /\ pc = "crashed"
    /\ race_list[Len(log)] = WebPage(PageNoMarker, InDate, TRUE, TRUE)
    /\ LastLog(log).raised = "AttributeError"
    /\ ~LastLog(log).inserted

\* The H3 of the page holds a date outside [start_date, stop_date].
DatedOutside(h) ==
    \E date \in {InDate, OutDate} :
        /\ h.hasH3
        /\ h.h3 = H3Text(date)
        /\ ~(DateLE(start_date, date) /\ DateLE(date, stop_date))

C17_NoSourceMarkupEmbedded ==
    site = "csrr" => \A k \in 1..Len(appended) : appended[k].banner = <<>>

\* C17 witness: the <strong> markup of the page is in the <pre> of the
\* fragment in the output file.
C17_Witness ==
    /\ site = "csrr"
    /\ Len(appended) = 1
    /\ appended[1].kind = "mixed"
    /\ appended[1].banner = StrongBanner
    /\ BodyOf(output_file) = appended

-----------------------------------------------------------------------------
(* CoolRunning: the secondary result files of one race (SpecInner) *)

\* 'http://www.coolrunning.com'
StrHost ==
    <<"h","t","t","p",":","/","/","w","w","w",".","c","o","o","l","r","u",
      "n","n","i","n","g",".","c","o","m">>

StrDotShtml == <<".", "s", "h", "t", "m", "l">>

\* The names of the files of a race in several parts, and of another race.
StemSet(n) == <<"S", "e", "t">> \o Decimal(n)
StemFun == <<"F", "u", "n", "1">>
FileName(stem) == stem \o StrDotShtml

\* The href of a link written relative to the page it stands on.
InnerHref(stem) == <<".", "/">> \o FileName(stem)

\* sub in text
Contains(text, sub) ==
    \E i \in 1..(Len(text) - Len(sub) + 1) :
        SubSeq(text, i, i + Len(sub) - 1) = sub

\* top_level_url.split('/')[-1]
LastPart(url) == Split(url, "/")[Len(Split(url, "/"))]

\* parts = race_file.split('.'); base = parts[-2][0:-1]
BaseOf(race_file) ==
    LET parts == Split(race_file, ".")
        stem == parts[Len(parts) - 1]
    IN  SubSeq(stem, 1, Len(stem) - 1)

\* The pattern '\./' + base + '\d+\.shtml' against the whole of an href.
InnerUrlMatches(base, href) ==
    LET n == Len(href)
        p == 2 + Len(base)
    IN  /\ n >= p + 1 + Len(StrDotShtml)
        /\ SubSeq(href, 1, 2) = <<".", "/">>
        /\ SubSeq(href, 3, p) = base
        /\ \A k \in (p + 1)..(n - Len(StrDotShtml)) : href[k] \in Digits
        /\ SubSeq(href, n - Len(StrDotShtml) + 1, n) = StrDotShtml

\* inner_regex.finditer(markup): the hrefs of the anchors that match, in
\* the order of the page.
InnerLinks(base, anchors) ==
    SelectSeq(anchors, LAMBDA href : InnerUrlMatches(base, href))

\* lst = top_level_url.split('/'); lst[-1] = race_file; '/'.join(lst)
InnerUrl(top_level_url, race_file) ==
    SubSeq(top_level_url, 1, Len(top_level_url) - Len(LastPart(top_level_url)))
        \o race_file

\* The body of the inner loop for one match: TRUE when the link is taken
\* as already seen.
AlreadySeen(relative_inner_url, top_level_url) ==
    Contains(top_level_url, relative_inner_url)

\* The page stored under a file name: a vanilla page with a member's line,
\* titled by the file, and the anchors it holds.
InnerPage(title, anchors) ==
    [race |-> RaceFile("kick610", [MarkupFull EXCEPT !.h1 = title]),
     anchors |-> anchors]

MaxLinks == 2

InnerHrefs == {InnerHref(StemSet(1)), InnerHref(StemSet(2)),
               InnerHref(StemSet(3)), InnerHref(StemFun)}

\* The server: the first file holds any anchors, the second may link to the
\* third or back to the first, the third may link back to the first.
InnerSites ==
    {[top |-> StrResults \o <<"1", "2", "/", "m", "a", "/">>
                \o FileName(StemSet(1)),
      pages |-> (FileName(StemSet(1)) :> InnerPage("Set1", a1))
                @@ (FileName(StemSet(2)) :> InnerPage("Set2", a2))
                @@ (FileName(StemSet(3)) :> InnerPage("Set3", a3))
                @@ (FileName(StemFun) :> InnerPage("Fun1", <<>>))] :
        a1 \in SeqsUpTo(InnerHrefs, MaxLinks),
        a2 \in {<<>>, <<InnerHref(StemSet(3))>>, <<InnerHref(StemSet(1))>>},
        a3 \in {<<>>, <<InnerHref(StemSet(1))>>}}

\* The state after compile_results has initialized the output file and
\* process_state_master_file has found one relative_url.
InnerInit ==
    /\ pc = "top"
    /\ membership = <<MemberEdFord>>
    /\ html \in InnerSites
    /\ race_list = <<>>
    /\ race_idx = 0
    /\ log = <<>>
    /\ output_file = InitializeOutputFileContent
    /\ initialized = TRUE
    /\ family = "common"
    /\ appended = <<>>
    /\ banners = <<>>
    /\ MIdle
    /\ NIdle
    /\ SIdle

\* download_file and compile_race_results for one file of the race.
InnerCompile(race_file) ==
    LET out == CompileRaceResults(html.pages[race_file].race, membership,
                                  output_file)
    IN  /\ output_file' = out.file
        /\ appended' = IF out.inserted THEN Append(appended, out.frag)
                       ELSE appended
        /\ log' = Append(log, [file |-> race_file, raised |-> out.raised,
                               inserted |-> out.inserted])

\* The pass of the outer loop up to the inner loop: the first file is
\* downloaded and compiled, its markup read and searched for links.
InnerTop ==
    /\ pc = "top"
    /\ LET top_level_url == StrHost \o html.top
           race_file == LastPart(top_level_url)
       IN  /\ InnerCompile(race_file)
           /\ race_list' = InnerLinks(BaseOf(race_file),
                                      html.pages[race_file].anchors)
    /\ race_idx' = 1
    /\ pc' = "inner"
    /\ UNCHANGED <<membership, initialized, family>>

\* One pass of the inner loop.
InnerStep ==
    /\ pc = "inner"
    /\ race_idx <= Len(race_list)
    /\ LET top_level_url == StrHost \o html.top
           relative_inner_url == race_list[race_idx]
           race_file == SubSeq(relative_inner_url, 3, Len(relative_inner_url))
       IN  IF AlreadySeen(relative_inner_url, top_level_url)
           THEN UNCHANGED <<output_file, appended, log>>
           ELSE InnerCompile(race_file)
    /\ race_idx' = race_idx + 1
    /\ UNCHANGED <<pc, membership, race_list, initialized, family>>

\* The inner loop has run out of matches.
InnerEnd ==
    /\ pc = "inner"
    /\ race_idx > Len(race_list)
    /\ pc' = "done"
    /\ UNCHANGED <<membership, race_list, race_idx, log, dvars>>

InnerNext ==
    \/ InnerTop /\ UNCHANGED <<nvars, mvars, svars, wvars>>
    \/ InnerStep /\ UNCHANGED <<nvars, mvars, svars, wvars>>
    \/ InnerEnd /\ UNCHANGED <<nvars, mvars, svars, wvars>>

SpecInner == InnerInit /\ [][InnerNext]_vars

-----------------------------------------------------------------------------
(* Claims about secondary result files, checked under SpecInner *)

\* The files compiled so far, in order.
Compiled == [i \in 1..Len(log) |-> log[i].file]

\* C12: while the secondary files of a race are collected no file is
\* downloaded and compiled twice.
C12_NoFileCompiledTwice ==
    \A i, j \in 1..Len(log) : i < j => log[i].file # log[j].file

\* C12 witness: the first file links back to itself and the inner loop has
\* compiled it a second time, adding a second fragment for it.
C12_Witness ==
    /\ pc = "done"
    /\ html.pages[FileName(StemSet(1))].anchors = <<InnerHref(StemSet(1))>>
    /\ Compiled = <<FileName(StemSet(1)), FileName(StemSet(1))>>
    /\ Len(BodyOf(output_file)) = 2

\* The files of the race that links lead to from the first file.
RECURSIVE ReachableFiles(_, _)
ReachableFiles(found, n) ==
    IF n = 0 THEN found
    ELSE ReachableFiles(
            found \cup {f \in DOMAIN html.pages :
                            \E g \in found :
                                \E k \in 1..Len(html.pages[g].anchors) :
                                    /\ html.pages[g].anchors[k]
                                            = <<".", "/">> \o f
                                    /\ InnerUrlMatches(
                                            BaseOf(FileName(StemSet(1))),
                                            html.pages[g].anchors[k])},
            n - 1)

\* C13: when the inner loop has ended, every file that links lead to from
\* the first file, directly or through other files, has been compiled.
C13_TransitiveDiscovery ==
    pc = "done" =>
        \A f \in ReachableFiles({FileName(StemSet(1))}, 3) :
            \E i \in 1..Len(log) : log[i].file = f

\* C13 witness: the first file links to the second only, the second to the
\* third; the inner loop has ended with the third never downloaded.
C13_Witness ==
    /\ pc = "done"
    /\ html.pages[FileName(StemSet(1))].anchors = <<InnerHref(StemSet(2))>>
    /\ html.pages[FileName(StemSet(2))].anchors = <<InnerHref(StemSet(3))>>
    /\ Compiled = <<FileName(StemSet(1)), FileName(StemSet(2))>>

\* C13, the part that holds: the inner loop makes one pass for each link
\* of the first file, whatever the files link to.
C13_InnerLoopEnds ==
    /\ race_idx <= Len(race_list) + 1
    /\ Len(log) <= 1 + Len(race_list)

-----------------------------------------------------------------------------
(* The banner of a preformatted block (SpecBanner) *)

\* re.match('\s+1', line)
MatchSpacesOne(line) ==
    \E k \in 1..(Len(line) - 1) :
        /\ \A j \in 1..k : line[j] \in WhiteSpace
        /\ line[k + 1] = "1"

\* banner += line + '\n' for each of the lines
RECURSIVE BannerText(_)
BannerText(lines) ==
    IF lines = <<>> THEN <<>>
    ELSE Head(lines) \o <<NL>> \o BannerText(Tail(lines))

\* The loop of parse_banner: the lines before the first that matches.
LinesBeforeBreak(lines) ==
    IF \E k \in 1..Len(lines) : MatchSpacesOne(lines[k])
    THEN SubSeq(lines, 1,
                Min({k \in 1..Len(lines) : MatchSpacesOne(lines[k])}) - 1)
    ELSE lines

\* A <pre> element as the parsers hand it over: whether the page has one,
\* its text up to its first child element, the number of its children.
PreTag(hasPre, text, nchildren) ==
    [hasPre |-> hasPre, text |-> text, nchildren |-> nchildren]

\* brrr.parse_banner
BrrrParseBanner(root) ==
    IF ~root.hasPre THEN <<>>
    ELSE BannerText(LinesBeforeBreak(Split(root.text, NL)))

\* CoolRunning.parse_banner
CrrrParseBanner(tag) ==
    IF tag.nchildren > 1 THEN <<>>
    ELSE BannerText(LinesBeforeBreak(Split(tag.text, NL)))

\* The banner group of the regular expression of webify_vanilla_results;
\* matchobj is None when the expression does not match.
VanillaBannerText(text) ==
    IF BannerEnds(text) = {}
    THEN [raised |-> "AttributeError", banner |-> <<>>]
    ELSE [raised |-> "", banner |-> SubSeq(text, 1, Min(BannerEnds(text)))]

MaxBannerLines == 3

\* "  Place Name", "  1 John Smith", "  2 Jane Doe", "  10K Run",
\* "1 John Smith"
LinePlaceName == Flatten(<<SP, SP, LineBanner>>)
LineJohnSmith ==
    <<" "," ","1"," ","J","o","h","n"," ","S","m","i","t","h">>
LineJaneDoe == <<" "," ","2"," ","J","a","n","e"," ","D","o","e">>
LineTenK == <<" "," ","1","0","K"," ","R","u","n">>
LineJohnSmithFlush == SubSeq(LineJohnSmith, 3, Len(LineJohnSmith))

BannerLineSamples ==
    {LinePlaceName, LineJohnSmith, LineJaneDoe, LineTenK, LineJohnSmithFlush}

PreTags ==
    {PreTag(TRUE, Join(lines, NL), n) :
        lines \in SeqsUpTo(BannerLineSamples, MaxBannerLines), n \in 0..2}
        \cup {PreTag(FALSE, <<>>, 0)}

BannerInit ==
    /\ pc = "banner"
    /\ html \in PreTags
    /\ banners = <<>>
    /\ membership = <<>>
    /\ race_list = <<>>
    /\ race_idx = 0
    /\ log = <<>>
    /\ DIdle
    /\ MIdle
    /\ NIdle
    /\ SIdle

\* The three extractions applied to the block.
ParseBanner ==
    /\ pc = "banner"
    /\ pc' = "parsed"
    /\ banners' = [brrr |-> BrrrParseBanner(html),
                   crrr |-> CrrrParseBanner(html),
                   vanilla |-> VanillaBannerText(html.text)]
    /\ UNCHANGED <<html, membership, race_list, race_idx, log>>

BannerNext == ParseBanner /\ UNCHANGED <<nvars, mvars, dvars, svars>>

SpecBanner == BannerInit /\ [][BannerNext]_vars

-----------------------------------------------------------------------------
(* Claims about banner extraction, checked under SpecBanner *)

\* A line whose content after leading white space begins with 1 followed
\* by white space.
FirstPlaceLine(line) ==
    \E k \in 0..(Len(line) - 2) :
        /\ \A j \in 1..k : line[j] \in WhiteSpace
        /\ line[k + 1] = "1"
        /\ line[k + 2] \in WhiteSpace

\* The lines before the first first-place line.
LinesBeforeFirstPlace(lines) ==
    SubSeq(lines, 1,
           Min({k \in 1..Len(lines) : FirstPlaceLine(lines[k])}) - 1)

\* A plain-text block with a first-place line.
PlainWithFirstPlace ==
    /\ html.hasPre
    /\ html.nchildren = 0
    /\ \E k \in 1..Len(Split(html.text, NL)) :
        FirstPlaceLine(Split(html.text, NL)[k])

\* C16: for a plain-text block with a first-place line each extraction
\* returns exactly the lines before the first first-place line.
C16_BannerIsLinesBeforeFirstPlace ==
    (pc = "parsed" /\ PlainWithFirstPlace) =>
        /\ banners.brrr
            = BannerText(LinesBeforeFirstPlace(Split(html.text, NL)))
        /\ banners.crrr
            = BannerText(LinesBeforeFirstPlace(Split(html.text, NL)))
        /\ banners.vanilla.raised = ""
        /\ banners.vanilla.banner
            = BannerText(LinesBeforeFirstPlace(Split(html.text, NL)))

\* C16 witness: the block is "  10K Run", "  Place Name", "  1 John Smith";
\* parse_banner has stopped at the race's name and returned nothing, the
\* regular expression of webify_vanilla_results has returned both lines.
C16_Witness ==
    /\ pc = "parsed"
    /\ html = PreTag(TRUE, Join(<<LineTenK, LinePlaceName, LineJohnSmith>>,
                                NL), 0)
    /\ banners.brrr = <<>>
    /\ banners.crrr = <<>>
    /\ banners.vanilla.banner = BannerText(<<LineTenK, LinePlaceName>>)

\* C16, the example of the claim: for "  Place Name", "  1 John Smith",
\* "  2 Jane Doe" each extraction returns "  Place Name" and its newline.
C16_Example ==
    (/\ pc = "parsed"
     /\ html = PreTag(TRUE, Join(<<LinePlaceName, LineJohnSmith,
                                   LineJaneDoe>>, NL), 0)) =>
        /\ banners.brrr = BannerText(<<LinePlaceName>>)
        /\ banners.crrr = BannerText(<<LinePlaceName>>)
        /\ banners.vanilla = [raised |-> "",
                              banner |-> BannerText(<<LinePlaceName>>)]

-----------------------------------------------------------------------------
(* brrr.run over a list of local race files (SpecBrrr) *)

\* str.rstrip()
RECURSIVE Rstrip(_)
Rstrip(line) ==
    IF line # <<>> /\ line[Len(line)] \in WhiteSpace
    THEN Rstrip(SubSeq(line, 1, Len(line) - 1))
    ELSE line

\* "  2 Ed Ford M"
LineBrrrMember == Flatten(<<SP, SP, <<"2">>, SP, Ed, SP, Ford, SP, <<"M">> >>)

\* A BestRace page: its <title> ("" when it has none), its <pre> and the
\* lines of the file that are not markup alone.
BrrrPage(title, pre, lines) == [title |-> title, pre |-> pre, lines |-> lines]

BrrrPageWithPre(lines) ==
    BrrrPage("Alpha 5K", PreTag(TRUE, Join(lines, NL), 0), lines)

BrrrPageFull ==
    BrrrPageWithPre(<<LinePlaceName, LineJohnSmith, LineBrrrMember>>)
BrrrPageNoMember == BrrrPageWithPre(<<LinePlaceName, LineJohnSmith>>)
BrrrPageNoTitle == [BrrrPageFull EXCEPT !.title = ""]
\* No <pre>: the results stand in paragraphs.
BrrrPageNoPre == BrrrPage("Alpha 5K", PreTag(FALSE, <<>>, 0),
                          <<LinePlaceName, LineJohnSmith, LineBrrrMember>>)
BrrrPageNoPreNoMember ==
    BrrrPage("Alpha 5K", PreTag(FALSE, <<>>, 0), <<LineNewBedford>>)

BrrrPages == {BrrrPageFull, BrrrPageNoMember, BrrrPageNoTitle, BrrrPageNoPre,
              BrrrPageNoPreNoMember}

\* The loop of brrr.compile_race_results: the lines, stripped on the right,
\* that match the membership list.
BrrrResults(page, members) ==
    SelectSeq([i \in 1..Len(page.lines) |-> Rstrip(page.lines[i])],
              LAMBDA line : BrrrMatchAgainstMembership(members, line))

\* The <div> of brrr.insert_race_results: pre.text is the banner, a newline
\* and the result lines.
BrrrPageDiv(result, page) ==
    [t |-> "elem", tag |-> "div", kind |-> "pre", title |-> page.title,
     date |-> "none", url |-> "none",
     text |-> BrrrParseBanner(page.pre) \o <<NL>> \o BannerText(result)]

\* A compile_race_results that passes over a race whose fragment is in the
\* body already.
BrrrCompileRaceResultsOnce(page, members, file) ==
    LET r == BrrrResults(page, members)
        tree == ParseFile(file)
        div == BrrrPageDiv(r, page)
    IN  IF Len(r) = 0 THEN Returned(file)
        ELSE IF page.title = "" THEN Raised("IndexError", file)
        ELSE IF \E k \in 1..Len(tree.body) : tree.body[k] = div
        THEN Returned(file)
        ELSE [raised |-> "", inserted |-> TRUE, frag |-> div,
              file |-> Serialize([tree EXCEPT
                                    !.body = Append(tree.body, div)])]

\* brrr.compile_race_results with insert_race_results
BrrrCompileRaceResults(page, members, file) ==
    LET r == BrrrResults(page, members)
    IN  IF Len(r) = 0 THEN Returned(file)
        ELSE IF page.title = "" THEN Raised("IndexError", file)
        ELSE LET tree == ParseFile(file)
                 div == BrrrPageDiv(r, page)
             IN  [raised |-> "", inserted |-> TRUE, frag |-> div,
                  file |-> Serialize([tree EXCEPT
                                        !.body = Append(tree.body, div)])]

BrrrInit ==
    /\ pc = "start"
    /\ membership \in PipelineRosters
    /\ race_list \in SeqsUpTo(BrrrPages, MaxRaces)
    /\ race_idx = 0
    /\ log = <<>>
    /\ output_file = <<>>
    /\ initialized = FALSE
    /\ family = "brrr"
    /\ appended = <<>>
    /\ MIdle
    /\ NIdle
    /\ SIdle
    /\ WIdle

\* run: load_membership_list, then compile_results up to the loop of
\* compile_local_results.
BrrrStart ==
    /\ pc = "start"
    /\ pc' = "loop"
    /\ race_idx' = 1
    /\ InitializeOutputFile
    /\ UNCHANGED <<membership, race_list, log>>

\* One pass of the loop of brrr.compile_local_results; nothing is caught.
BrrrPass ==
    /\ pc = "loop"
    /\ race_idx <= Len(race_list)
    /\ LET out == BrrrCompileRaceResults(race_list[race_idx], membership,
                                         output_file)
       IN  /\ output_file' = out.file
           /\ appended' = IF out.inserted THEN Append(appended, out.frag)
                          ELSE appended
           /\ log' = Append(log, [raised |-> out.raised,
                                  inserted |-> out.inserted,
                                  frag |-> out.frag])
           /\ pc' = IF out.raised = "" THEN "loop" ELSE "crashed"
    /\ race_idx' = race_idx + 1
    /\ UNCHANGED <<membership, race_list, initialized, family>>

\* The end of run: rr.common.local_tidy(self.output_file).
BrrrFinish ==
    /\ pc = "loop"
    /\ race_idx > Len(race_list)
    /\ pc' = "done"
    /\ output_file' = LocalTidy(output_file)
    /\ UNCHANGED <<membership, race_list, race_idx, log, initialized, family,
                   appended>>

BrrrNext ==
    \/ BrrrStart /\ UNCHANGED <<nvars, mvars, svars, wvars>>
    \/ BrrrPass /\ UNCHANGED <<nvars, mvars, svars, wvars>>
    \/ BrrrFinish /\ UNCHANGED <<nvars, mvars, svars, wvars>>

SpecBrrr == BrrrInit /\ [][BrrrNext]_vars

-----------------------------------------------------------------------------
(* Claims about pages without a result block *)

\* C18: the pass over a BestRace page without a <pre> raises nothing and
\* appends no fragment, and the run goes on.
C18_NoBlockNoFragment ==
    \A i \in 1..Len(log) :
        ~race_list[i].pre.hasPre =>
            /\ log[i].raised = ""
            /\ ~log[i].inserted
            /\ (i = Len(log) => pc # "crashed")

\* C18 witness: the page has no <pre> and names a member in a paragraph; a
\* fragment with an empty banner is in the output file.
C18_Witness ==
    /\ family = "brrr"
    /\ Len(log) = 1
    /\ race_list[1] = BrrrPageNoPre
    /\ log[1].inserted
    /\ log[1].frag.text = <<NL>> \o BannerText(<<LineBrrrMember>>)
    /\ BodyOf(output_file) = <<log[1].frag>>

\* C18 for CoolRunning (under Spec): the pass over a vanilla page without
\* a <pre> raises nothing, appends nothing and the loop goes on.
C18_CoolRunningNoBlock ==
    \A i \in 1..Len(log) :
        (/\ race_list[i].exists
         /\ race_list[i].author \in VanillaAuthors
         /\ ~race_list[i].markup.hasPre) =>
            /\ log[i] = [raised |-> "", inserted |-> FALSE, frag |-> NoFrag]
            /\ (i = Len(log) => pc # "crashed")

-----------------------------------------------------------------------------
(* Claims about the output document, checked under SpecDoc *)

C20_AlwaysWellFormed ==
    initialized =>
        /\ ParseFile(output_file).ok
        /\ \A k \in 1..Len(appended) :
            \E j \in 1..Len(BodyOf(output_file)) :
                BodyOf(output_file)[j] = appended[k]

\* C20 witness: two fragments have been appended and the file parses with
\* both in its body.
C20_Witness ==
    /\ initialized
    /\ Len(appended) = 2
    /\ ParseFile(output_file).ok
    /\ Len(BodyOf(output_file)) = 2

-----------------------------------------------------------------------------
(* A web run that is not left half-way (SpecWebFair) *)

\* The control of a run that has not ended moves on: the next statement
\* of run is executed (a step of WebNext changes pc or race_idx).
WebAdvance ==
    /\ pc \in {"start", "loop"}
    /\ pc' \in {"loop", "done", "crashed"}
    /\ race_idx' \in {race_idx, race_idx + 1}

\* The interpreter does not stop in the middle of run.
SpecWebFair ==
    WebInit /\ [][WebNext]_vars /\ WF_<<pc, race_idx>>(WebAdvance)

\* The fragments that the passes so far handed to insert_race_results.
LoggedFragments ==
    LET hits == SelectSeq(log, LAMBDA entry : entry.inserted)
    IN  [k \in 1..Len(hits) |-> hits[k].frag]

\* C21: a web run writes the skeleton before its first pass, ends (at the
\* end of run or at an exception), and from the skeleton on the output file
\* parses and its body holds every fragment appended so far, also after
\* the pass that raised.
C21_RunEndsWithDocument ==
    /\ [](pc # "start" =>
            /\ initialized
            /\ ParseFile(output_file).ok
            /\ HeadOf(output_file) = <<Link>>
            /\ BodyOf(output_file) = LoggedFragments)
    /\ [](log # <<>> => initialized)
    /\ <>(pc \in {"done", "crashed"})

\* C21 witness: the first page got its fragment, the pass over the second
\* raised, and the file on disk holds the skeleton with that fragment.
C21_Witness ==
    /\ pc = "crashed"
    /\ Len(log) = 2
    /\ log[1].inserted
    /\ log[2].raised # ""
    /\ ParseFile(output_file).ok
    /\ BodyOf(output_file) = <<log[1].frag>>

-----------------------------------------------------------------------------
(* The rows collected from one race, for any roster (SpecRows) *)

\* "  3 New Ed", and the table row of the same runner
LineNewEd == Flatten(<<SP, SP, <<"3">>, SP, New, SP, Ed>>)
RowNewEd  == [ntds |-> 3, name |-> Flatten(<<New, SP, Ed>>)]

\* A race in which two members ran, the second of the roster first.
MarkupTwoMembers ==
    [MarkupFull EXCEPT
        !.pre = Join(<<LineBanner, LineFirstPlace, LineNewEd, LineMember>>,
                     NL),
        !.trs = <<RowHeader, RowOther, RowNewEd, RowMember>>]

RowFiles ==
    {RaceFile(a, m) :
        a \in {"CapeCodRoadRunners", "kick610"},
        m \in {MarkupFull, MarkupNoMember, MarkupNoFirstPlace, MarkupNoPre,
               MarkupTwoMembers}}

RowPages == {PageIn, PageInNoMember, PageStrong}

RowsInit ==
    /\ pc = "rows"
    /\ membership \in Rosters
    /\ race_list \in {<<race>> : race \in RowFiles}
    /\ race_idx = 1
    /\ log = <<>>
    /\ html \in RowPages
    /\ banners = <<>>
    /\ DIdle
    /\ MIdle
    /\ NIdle
    /\ SIdle

\* The three collections applied to the race file and the page.
CompileRows ==
    /\ pc = "rows"
    /\ pc' = "compiled"
    /\ log' = <<[vanilla |-> CompileVanillaResults(race_list[1], membership),
                 ccrr |-> CompileCcrrRaceResults(race_list[1], membership),
                 csrr |-> WebResults("csrr", html, membership)]>>
    /\ UNCHANGED <<membership, race_list, race_idx, html, banners>>

RowsNext == CompileRows /\ UNCHANGED <<nvars, mvars, dvars, svars>>

SpecRows == RowsInit /\ [][RowsNext]_vars

-----------------------------------------------------------------------------
(* Claims about the rows of a fragment, checked under SpecRows *)

\* No two entries of rows from position first on are the same row.
NoRowTwice(rows, first) ==
    \A i, j \in first..Len(rows) : i < j => rows[i] # rows[j]

\* C22: a row of the source (the rows and lines of the inputs are pairwise
\* different) stands at most once among the collected rows, whatever the
\* roster; the first entry of the Cape Cod list is the header row.
C22_RowAtMostOnce ==
    pc = "compiled" =>
        /\ NoRowTwice(log[1].vanilla, 1)
        /\ NoRowTwice(log[1].ccrr, 2)
        /\ NoRowTwice(log[1].csrr, 1)

\* C22 witness: the roster lists Ed Ford twice and the Cape Cod collection
\* holds his row twice after the header.
C22_Witness ==
    /\ pc = "compiled"
    /\ membership = <<MemberEdFord, MemberEdFord>>
    /\ race_list[1] = RaceFile("CapeCodRoadRunners", MarkupFull)
    /\ log[1].ccrr = <<RowHeader, RowMember, RowMember>>
    /\ log[1].vanilla = <<LineMember>>

\* Some member of the roster has both names, word-bounded, in the line.
MemberLine(members, line) ==
    \E k \in 1..Len(members) : ContainsBothNames(members[k], line)

-----------------------------------------------------------------------------
(* Claims about vendors, checked under Spec *)

\* C24: the pass over a file of the Harriers vendor with h1, h2, a <pre>
\* block with a banner and a member's line appends a fragment for it.
C24_HarriersHandled ==
    \A i \in 1..Len(log) :
        (/\ race_list[i].exists
         /\ race_list[i].author \in HarriersAuthors
         /\ race_list[i].markup = MarkupFull) =>
            log[i].inserted

\* C24 witness: the run over the one Harriers file has ended; the pass
\* raised nothing and appended nothing, the body of the output is empty.
C24_Witness ==
    /\ pc = "done"
    /\ race_list = <<RaceFile("Harriers", MarkupFull)>>
    /\ log = <<[raised |-> "", inserted |-> FALSE, frag |-> NoFrag]>>
    /\ BodyOf(output_file) = <<>>

-----------------------------------------------------------------------------
(* The text of the <pre> of a fragment: BestRace and GenericRR (SpecPre) *)

\* fp.readlines() and iteration over an open file: every line with its
\* newline.
Readlines(lines) == [i \in 1..Len(lines) |-> lines[i] \o <<NL>>]

\* The loop of GenericRR.compile_race_results: the lines as read that match
\* the membership list.
GenrrResults(lines, members) ==
    SelectSeq(Readlines(lines),
              LAMBDA line : BrrrMatchAgainstMembership(members, line))

\* GenericRR.webify_results: pre.text = '\n'.join(results_lst)
GenrrPreText(results_lst) == Join(results_lst, NL)

\* The loop of brrr.compile_race_results over the lines as read.
BrrrResultsOfLines(lines, members) ==
    SelectSeq([i \in 1..Len(lines) |-> Rstrip(Readlines(lines)[i])],
              LAMBDA line : BrrrMatchAgainstMembership(members, line))

\* brrr.insert_race_results: text = '\n', then line + '\n' for each line.
BrrrResultsText(result) == <<NL>> \o BannerText(result)

MaxFileLines == 3

\* "  3 New Ed M"
LineNewEdM == Flatten(<<SP, SP, <<"3">>, SP, New, SP, Ed, SP, <<"M">> >>)

FileLineSamples == {LinePlaceName, LineJohnSmith, LineBrrrMember, LineNewEdM}

PreInit ==
    /\ pc = "file"
    /\ membership = <<MemberEdFord, MemberNewEd>>
    /\ race_list \in SeqsUpTo(FileLineSamples, MaxFileLines)
    /\ race_idx = 0
    /\ log = <<>>
    /\ DIdle
    /\ MIdle
    /\ NIdle
    /\ SIdle
    /\ WIdle

\* Both classes collect the lines of the file and build the text of <pre>.
WebifyLines ==
    /\ pc = "file"
    /\ pc' = "webified"
    /\ log' = <<[genrr |-> GenrrPreText(GenrrResults(race_list, membership)),
                 brrr |-> BrrrResultsText(
                            BrrrResultsOfLines(race_list, membership))]>>
    /\ UNCHANGED <<membership, race_list, race_idx>>

PreNext == WebifyLines /\ UNCHANGED <<nvars, mvars, dvars, svars, wvars>>

SpecPre == PreInit /\ [][PreNext]_vars

\* Two newlines in a row in text.
ConsecutiveNewlines(text) ==
    \E i \in 1..(Len(text) - 1) : text[i] = NL /\ text[i + 1] = NL

\* C25: the text both classes build from the matched lines has no two
\* newlines in a row, whatever lines match.
C25_NoConsecutiveNewlines ==
    pc = "webified" =>
        /\ ~ConsecutiveNewlines(log[1].brrr)
        /\ ~ConsecutiveNewlines(log[1].genrr)

\* C25 witness: two lines of the file match; GenericRR's text has an empty
\* line between them, BestRace's has not.
C25_Witness ==
    /\ pc = "webified"
    /\ race_list = <<LinePlaceName, LineBrrrMember, LineNewEdM>>
    /\ log[1].genrr = LineBrrrMember \o <<NL, NL>> \o LineNewEdM \o <<NL>>
    /\ log[1].brrr = <<NL>> \o LineBrrrMember \o <<NL>> \o LineNewEdM
                        \o <<NL>>

\* C25 for BestRace alone: the part test_consecutive_newlines looks at.
C25_BestRace ==
    pc = "webified" => ~ConsecutiveNewlines(log[1].brrr)

-----------------------------------------------------------------------------
(* Provenance of CompuScore fragments, checked under SpecWeb *)

\* C28: in a web run of CompuScore the URL in a fragment is the URL of the
\* page whose lines the fragment holds, and a page that does not decode
\* adds no fragment.
C28_ProvenanceIsSource ==
    site = "csrr" =>
        \A i \in 1..Len(log) :
            /\ log[i].inserted =>
                /\ race_list[log[i].frag.url].decodable
                /\ log[i].frag.rows =
                      WebResults("csrr", race_list[log[i].frag.url].content,
                                 membership)
            /\ ~race_list[i].decodable => ~log[i].inserted

\* C28 witness: the second page does not decode; the pass has compiled the
\* first page once more and appended its line under the second URL.
C28_Witness ==
    /\ site = "csrr"
    /\ race_list = <<WebPage(PageIn, InDate, TRUE, TRUE),
                     WebPage(PageOut, InDate, TRUE, FALSE)>>
    /\ Len(log) = 2
    /\ log[2].inserted
    /\ log[2].frag.url = 2
    /\ log[2].frag.rows = <<CsLineMember>>
    /\ log[2].frag.date = InDate
    /\ Len(BodyOf(output_file)) = 2

-----------------------------------------------------------------------------
(* The number of fragments of a run, checked under SpecBrrr *)

\* The races of the list with at least one line that matches the roster,
\* one entry for each time a race is listed.
RacesWithRows ==
    SelectSeq(race_list,
              LAMBDA page : BrrrResults(page, membership) # <<>>)

\* C29: after a run the body of the output file holds one fragment for
\* every listed race with a matching line, in the order of the list, a race
\* listed twice having two; while the run goes on the body holds one for
\* every such race among those processed.
C29_OneFragmentPerMatchingRace ==
    /\ pc = "done" =>
        /\ Len(BodyOf(output_file)) = Len(RacesWithRows)
        /\ \A k \in 1..Len(RacesWithRows) :
            BodyOf(output_file)[k]
                = BrrrPageDiv(BrrrResults(RacesWithRows[k], membership),
                              RacesWithRows[k])
    /\ pc = "loop" =>
        Len(BodyOf(output_file))
            = Cardinality({i \in 1..Len(log) :
                            BrrrResults(race_list[i], membership) # <<>>})

\* C29 witness: the same race file is listed twice, as in test_racelist,
\* and the body holds its fragment twice.
C29_Witness ==
    /\ pc = "done"
    /\ race_list = <<BrrrPageFull, BrrrPageFull>>
    /\ Len(BodyOf(output_file)) = 2
    /\ BodyOf(output_file)[1] = BodyOf(output_file)[2]
    /\ BodyOf(output_file)[1].text
          = BannerText(<<LinePlaceName>>) \o <<NL>>
              \o BannerText(<<LineBrrrMember>>)

-----------------------------------------------------------------------------
(* A run of CompuScore over a list of local race files (SpecCsLocal) *)

\* A compile_local_results that would pass over a file whose race date is
\* outside the range of the run.
CsCompileLocalFileInRange(h, members, file) ==
    IF WebResults("csrr", h, members) = <<>> THEN Returned(file)
    ELSE IF GetRaceDate(h).raised # ""
    THEN Raised(GetRaceDate(h).raised, file)
    ELSE IF DateLE(start_date, GetRaceDate(h).date)
                /\ DateLE(GetRaceDate(h).date, stop_date)
    THEN CsCompileRaceResults(h, "none", members, file)
    ELSE Returned(file)

\* One pass of the loop of CompuScore.compile_local_results on a file whose
\* parse tree is h: local_tidy writes the tree back, self.html is the file,
\* compile_race_results collects the lines; webify_results reads the race
\* date (and may raise there) and, self.downloaded_url being None, adds no
\* provenance link.
CsCompileLocalFile(h, members, file) ==
    IF WebResults("csrr", h, members) = <<>> THEN Returned(file)
    ELSE IF GetRaceDate(h).raised # ""
    THEN Raised(GetRaceDate(h).raised, file)
    ELSE CsCompileRaceResults(h, "none", members, file)

CsLocalFiles == {PageIn, PageOut, PageInNoMember, PageStrong, PageGarbled,
                 PageNoMarker, PageLiteral, PageNoTitle}

CsLocalInit ==
    /\ pc = "start"
    /\ membership = <<MemberEdFord>>
    /\ race_list \in SeqsUpTo(CsLocalFiles, MaxPages)
    /\ race_idx = 0
    /\ log = <<>>
    /\ site = "csrr"
    /\ \E r \in WebRanges : start_date = r[1] /\ stop_date = r[2]
    /\ disc_phase = "off"
    /\ selected = {}
    /\ html = NoHtml
    /\ banners = <<>>
    /\ DIdle
    /\ MIdle
    /\ NIdle

\* compile_results up to the loop of compile_local_results.
CsLocalStart ==
    /\ pc = "start"
    /\ pc' = "loop"
    /\ race_idx' = 1
    /\ InitializeOutputFile
    /\ UNCHANGED <<membership, race_list, log, html, banners>>

CsLocalPass ==
    /\ pc = "loop"
    /\ race_idx <= Len(race_list)
    /\ html' = race_list[race_idx]
    /\ WebPass(CsCompileLocalFile(race_list[race_idx], membership,
                                  output_file))

CsLocalNext ==
    \/ CsLocalStart /\ UNCHANGED <<nvars, mvars, svars>>
    \/ CsLocalPass /\ UNCHANGED <<nvars, mvars, svars>>
    \/ WebFinish /\ UNCHANGED <<nvars, mvars, svars>>

SpecCsLocal == CsLocalInit /\ [][CsLocalNext]_vars

\* The pass of the web loop over the same markup, downloaded from url in a
\* run whose range holds the date of the page.
WebPassOver(h, url) ==
    CsProcessUrl(WebPage(h, GetRaceDate(h).date, TRUE, TRUE), url,
                 MasterHtml, GetRaceDate(h).date, GetRaceDate(h).date,
                 membership, InitializeOutputFileContent)

-----------------------------------------------------------------------------
(* Runs of NewYorkRR instances: downloads and result pages (SpecNyrr) *)

NyrrInstances == {1, 2}

\* A download_file whose jar is the one of the opener installed last, if
\* there is one.
NyrrCookieJarOfOpener(self_jar, installed, heap) ==
    IF installed # 0 THEN installed ELSE Len(heap) + 1

\* download_file: self.cookie_jar after "if self.cookie_jar is None:
\* self.cookie_jar = LWPCookieJar()", a new jar or the one the instance has.
NyrrCookieJar(self_jar, installed, heap) ==
    IF self_jar = 0 THEN Len(heap) + 1 ELSE self_jar

\* The cookie the site sets in its response to a request of instance self
\* that carried no cookie: the session of that instance.
SetCookie(self, sent) == IF sent = {} THEN {[session |-> self]} ELSE {}

\* NewYorkRR.download_file called by instance self: the jar, an opener with
\* a cookie processor on that jar, install_opener, urlopen.
DownloadFile(self) ==
    LET jar == NyrrCookieJar(cookie_jar[self], opener, jars)
        heap == IF jar > Len(jars) THEN Append(jars, {}) ELSE jars
        sent == heap[jar]
    IN  /\ cookie_jar' = [cookie_jar EXCEPT ![self] = jar]
        /\ opener' = jar
        /\ jars' = [heap EXCEPT ![jar] = @ \cup SetCookie(self, sent)]
        /\ requests' = [requests EXCEPT
                          ![self] = Append(@, [jar |-> jar, sent |-> sent])]

\* The page the search of an event returns: whether it says 'Your search
\* returns no match.' and the number of its <table> elements.
NyrrResultPage(nomatch, tables) == [nomatch |-> nomatch, tables |-> tables]

NyrrResultPages ==
    {NyrrResultPage(TRUE, 2), NyrrResultPage(FALSE, 2),
     NyrrResultPage(FALSE, 3), NyrrResultPage(FALSE, 4)}

\* An entry of the year's list of races: whether its date is in the range
\* of the run, whether its search page holds the form, its result page.
NyrrEvents ==
    {[kept |-> FALSE, form |-> TRUE, result |-> NyrrResultPage(FALSE, 4)],
     [kept |-> TRUE, form |-> FALSE, result |-> NyrrResultPage(FALSE, 4)]}
    \cup {[kept |-> TRUE, form |-> TRUE, result |-> r] :
            r \in NyrrResultPages}

MaxEvents == 2

\* NewYorkRR.webify_results(tables): the race metadata of tables[1], the
\* provenance, the sanitized tables[3].
NyrrDiv(page) ==
    [t |-> "elem", tag |-> "div", kind |-> "table", title |-> "NYRR race",
     date |-> "none", url |-> "http://www.nyrr.org",
     rows |-> <<page.tables>>]

\* process_event from the read of nyrrresult.html on.
NyrrProcessResult(page, file) ==
    IF page.nomatch THEN Returned(file)
    ELSE IF page.tables < 3 THEN Returned(file)
    ELSE IF page.tables < 4 THEN Raised("IndexError", file)
    ELSE [raised |-> "", inserted |-> TRUE, frag |-> NyrrDiv(page),
          file |-> NyrrInsertRaceResults(file, NyrrDiv(page))]

NyrrInit ==
    /\ pc = [self \in NyrrInstances |-> "start"]
    /\ membership = <<>>
    /\ race_list \in SeqsUpTo(NyrrEvents, MaxEvents)
    /\ race_idx = [self \in NyrrInstances |-> 0]
    /\ log = [self \in NyrrInstances |-> <<>>]
    /\ output_file = [self \in NyrrInstances |-> <<>>]
    /\ initialized = [self \in NyrrInstances |-> FALSE]
    /\ family = "nyrr"
    /\ appended = [self \in NyrrInstances |-> <<>>]
    /\ cookie_jar = [self \in NyrrInstances |-> 0]
    /\ jars = <<>>
    /\ opener = 0
    /\ requests = [self \in NyrrInstances |-> <<>>]
    /\ MIdle
    /\ SIdle
    /\ WIdle

\* Where the for loop of run stands after the entry before idx.
NyrrLoop(idx) == IF idx > Len(race_list) THEN "done" ELSE "event"

\* run: initialize_output_file and the download of the results archive.
NyrrArchive(self) ==
    /\ pc[self] = "start"
    /\ pc' = [pc EXCEPT ![self] = "year"]
    /\ output_file' = [output_file EXCEPT
                         ![self] = InitializeOutputFileContent]
    /\ initialized' = [initialized EXCEPT ![self] = TRUE]
    /\ appended' = [appended EXCEPT ![self] = <<>>]
    /\ DownloadFile(self)
    /\ UNCHANGED <<membership, race_list, race_idx, log, family>>

\* run: the download of the list of the year's races, up to the for loop.
NyrrYear(self) ==
    /\ pc[self] = "year"
    /\ pc' = [pc EXCEPT ![self] = NyrrLoop(1)]
    /\ race_idx' = [race_idx EXCEPT ![self] = 1]
    /\ DownloadFile(self)
    /\ UNCHANGED <<membership, race_list, log, dvars>>

\* A pass of the for loop of run over a race outside the range.
NyrrSkip(self) ==
    /\ pc[self] = "event"
    /\ ~race_list[race_idx[self]].kept
    /\ pc' = [pc EXCEPT ![self] = NyrrLoop(race_idx[self] + 1)]
    /\ race_idx' = [race_idx EXCEPT ![self] = @ + 1]
    /\ UNCHANGED <<membership, race_list, log, dvars, nvars>>

\* process_event up to the search form: the download of the search page.
NyrrSearchPage(self) ==
    /\ pc[self] = "event"
    /\ race_list[race_idx[self]].kept
    /\ DownloadFile(self)
    /\ IF race_list[race_idx[self]].form
       THEN /\ pc' = [pc EXCEPT ![self] = "post"]
            /\ log' = log
       ELSE /\ pc' = [pc EXCEPT ![self] = "crashed"]
            /\ log' = [log EXCEPT
                         ![self] = Append(@, [event |-> race_idx[self],
                                              raised |-> "AttributeError",
                                              inserted |-> FALSE,
                                              frag |-> NoFrag])]
    /\ UNCHANGED <<membership, race_list, race_idx, dvars>>

\* process_event from the POST of the search on.
NyrrPost(self) ==
    /\ pc[self] = "post"
    /\ DownloadFile(self)
    /\ LET out == NyrrProcessResult(race_list[race_idx[self]].result,
                                    output_file[self])
       IN  /\ output_file' = [output_file EXCEPT ![self] = out.file]
           /\ appended' = [appended EXCEPT
                             ![self] = IF out.inserted
                                       THEN Append(@, out.frag) ELSE @]
           /\ log' = [log EXCEPT
                        ![self] = Append(@, [event |-> race_idx[self],
                                             raised |-> out.raised,
                                             inserted |-> out.inserted,
                                             frag |-> out.frag])]
           /\ pc' = [pc EXCEPT
                       ![self] = IF out.raised = ""
                                 THEN NyrrLoop(race_idx[self] + 1)
                                 ELSE "crashed"]
    /\ race_idx' = [race_idx EXCEPT ![self] = @ + 1]
    /\ UNCHANGED <<membership, race_list, initialized, family>>

NyrrNext ==
    \/ \E self \in NyrrInstances :
        NyrrArchive(self) /\ UNCHANGED <<mvars, svars, wvars>>
    \/ \E self \in NyrrInstances :
        NyrrYear(self) /\ UNCHANGED <<mvars, svars, wvars>>
    \/ \E self \in NyrrInstances :
        NyrrSkip(self) /\ UNCHANGED <<mvars, svars, wvars>>
    \/ \E self \in NyrrInstances :
        NyrrSearchPage(self) /\ UNCHANGED <<mvars, svars, wvars>>
    \/ \E self \in NyrrInstances :
        NyrrPost(self) /\ UNCHANGED <<mvars, svars, wvars>>

SpecNyrr == NyrrInit /\ [][NyrrNext]_vars

-----------------------------------------------------------------------------
(* Claims about NewYorkRR, checked under SpecNyrr *)

\* C27: an instance has a jar from its first download_file on; every
\* request of the instance goes out with that jar, from the second on
\* with the session cookie the first response set; the jars of two
\* instances differ and no request carries a cookie of the other.
C27_OneJarPerInstance ==
    /\ \A self \in NyrrInstances :
        /\ (cookie_jar[self] = 0) = (requests[self] = <<>>)
        /\ \A k \in 1..Len(requests[self]) :
            /\ requests[self][k].jar = cookie_jar[self]
            /\ requests[self][k].sent
                  = IF k = 1 THEN {} ELSE {[session |-> self]}
    /\ (cookie_jar[1] # 0 /\ cookie_jar[2] # 0) =>
            cookie_jar[1] # cookie_jar[2]

\* C27 witness: instance 1 has sent the four requests of a run with one
\* event, after instance 2 created its jar and sent one; the opener
\* installed last is on the jar of instance 1.
C27_Witness ==
    /\ Len(requests[1]) = 4
    /\ Len(requests[2]) = 1
    /\ cookie_jar[2] = 1
    /\ cookie_jar[1] = 2
    /\ opener = 2
    /\ jars = <<{[session |-> 2]}, {[session |-> 1]}>>
    /\ requests[1][4] = [jar |-> 2, sent |-> {[session |-> 1]}]

\* C30: process_event raises nothing over the result page; it appends one
\* fragment when the page has 3 or more tables and is not a 'no match'
\* page, and leaves the output file as it was otherwise.
C30_AppendsOrReturns ==
    \A self \in NyrrInstances :
        \A k \in 1..Len(log[self]) :
            LET page == race_list[log[self][k].event].result
            IN  race_list[log[self][k].event].form =>
                    /\ log[self][k].raised = ""
                    /\ log[self][k].inserted
                          = (~page.nomatch /\ page.tables >= 3)

\* C30 witness: the result page has exactly three tables; webify_results
\* has raised IndexError at tables[3], nothing was appended and the run of
\* the instance has ended there.
C30_Witness ==
    /\ pc[1] = "crashed"
    /\ race_list = <<[kept |-> TRUE, form |-> TRUE,
                      result |-> NyrrResultPage(FALSE, 3)]>>
    /\ log[1] = <<[event |-> 1, raised |-> "IndexError",
                   inserted |-> FALSE, frag |-> NoFrag]>>
    /\ BodyOf(output_file[1]) = <<>>

\* C30 for the other pages: a 'no match' page and a page with fewer than 3
\* tables add nothing and raise nothing, a page with 4 tables adds one
\* fragment.
C30_OtherPages ==
    \A self \in NyrrInstances :
        /\ \A k \in 1..Len(log[self]) :
            LET page == race_list[log[self][k].event].result
            IN  (race_list[log[self][k].event].form /\ page.tables # 3) =>
                    /\ log[self][k].raised = ""
                    /\ log[self][k].inserted
                          = (~page.nomatch /\ page.tables >= 3)
        /\ initialized[self] => BodyOf(output_file[self]) = appended[self]

=============================================================================
